---- MODULE Spec2Model ----
(***************************************************************************)
(* Model of media/filters/frame_processor.cc: the MSE coded frame          *)
(* processing algorithm (FrameProcessor) and its per-track bookkeeping     *)
(* (MseTrackBuffer).                                                       *)
(*                                                                         *)
(* Timestamps and durations are integers in one abstract time unit.        *)
(* ProcessFrames is modelled as a sequence of steps: the call starts       *)
(* (StartProcessFrames), every pass through the body of the                *)
(* `while (true)` loop of ProcessFrame is one step (ProcessFrame), and     *)
(* the final flush and duration update is one step (FinishProcessFrames).  *)
(* The frames of the merged batch are drawn one by one, in the decode      *)
(* order MergeBufferQueues produces.  All other public calls are atomic    *)
(* and only possible while no ProcessFrames call is running (the           *)
(* component is single-threaded and synchronous).                          *)
(***************************************************************************)
EXTENDS Integers, Sequences, FiniteSets, TLC

\* ---------------------------------------------------------------- bounds
\* Greatest decode timestamp a parsed frame carries.
MaxTs == 1
\* Greatest number of frames handed to ProcessFrame in one behaviour.
MaxFrames == 3
\* Greatest number of ProcessFrames calls in one behaviour.
MaxCalls == 2
\* Cap of the counter of passes through the ProcessFrame loop for one frame
\* (the counter saturates here; the loop itself is not bounded by it).
MaxIter == 4
\* Greatest decode timestamp of a buffer handed to a SourceBufferRangeByPts.
MaxRangeTs == 2
\* Greatest number of buffers of a queue handed to a range in one call.
MaxQueue == 2
\* Greatest number of buffers a range is handed in one behaviour.
MaxRangeBuffers == 4
\* Greatest decode timestamp and greatest duration of the buffers of the ranges
\* the queries are made on.
MaxQueryTs == 2
MaxQueryDuration == 2
\* Greatest number of bytes the owning stream asks GetRemovalGOP to free.
MaxBytesToFree == 3
\* data_size() of the key frames and of the other buffers handed to a range.
KeyFrameSize == 2
DeltaFrameSize == 1
\* The distance between buffers that interbuffer_distance_cb_ reports.
ApproximateDuration == 1
\* End of an append window that is open to the right: later than the end of
\* every frame of the model.
OpenWindowEnd == 1000

\* ------------------------------------------------------------- constants
\* kNoTimestamp / kNoDecodeTimestamp(): the "unset" value, the smallest
\* representable time.
kNoTimestamp == -1000
kMaxNumKeyframeTimeGreaterThanDependantWarnings == 1
kMaxMuxedSequenceModeWarnings == 1

AUDIO == "AUDIO"
VIDEO == "VIDEO"

\* Track ids used by the parser.
TrackIds == {1, 2}

\* ChunkDemuxerStream as seen by the processor: its type and whether it
\* supports partial append window trimming (audio streams only).
\* The stream registered for a track id: track 1 carries audio, track 2 video.
StreamFor(id) ==
  IF id = 1 THEN [type |-> AUDIO, partial |-> TRUE]
            ELSE [type |-> VIDEO, partial |-> FALSE]

\* ------------------------------------------------------ StreamParserBuffer
\* A frame: pts = timestamp(), dts = GetDecodeTimestamp(), dur = duration(),
\* key = is_key_frame(), discard padding (front, back), preroll attached.
Buffer(track, type, pts, dts, dur, key) ==
  [track |-> track, type |-> type, pts |-> pts, dts |-> dts, dur |-> dur,
   key |-> key, discard_front |-> 0, discard_back |-> 0, preroll |-> FALSE]

\* Audio frames a parser emits: presentation and decode time are equal; one
\* of them is not marked as a key frame.
AudioFrames ==
  { Buffer(1, AUDIO, d, d, 2, TRUE) : d \in 0..MaxTs }
    \cup { Buffer(1, AUDIO, 1, 1, 2, FALSE) }

\* Video frames a parser emits.  A key frame is presented at its decode time
\* or, reordered, one unit later; another frame at its decode time or one unit
\* earlier (decode time after presentation time).
VideoFrames ==
  { Buffer(2, VIDEO, d, d, u, TRUE) : d \in 0..MaxTs, u \in {0, 1} }
    \cup { Buffer(2, VIDEO, d + 1, d, 1, TRUE) : d \in 0..MaxTs }
    \cup { Buffer(2, VIDEO, d, d, 1, FALSE) : d \in 0..MaxTs }
    \cup { Buffer(2, VIDEO, d - 1, d, 1, FALSE) : d \in 1..MaxTs }

\* Frames with a missing or invalid field, a negative decode time, a type
\* other than their track's, or a track id that is not registered.
MalformedFrames ==
  { Buffer(2, VIDEO, kNoTimestamp, 0, 1, TRUE),
    Buffer(2, VIDEO, 0, kNoTimestamp, 1, TRUE),
    Buffer(1, AUDIO, 1, 1, kNoTimestamp, TRUE),
    Buffer(2, VIDEO, 1, 1, -1, TRUE),
    Buffer(2, VIDEO, 0, -1, 1, TRUE),
    Buffer(1, VIDEO, 1, 1, 1, TRUE),
    Buffer(3, VIDEO, 1, 1, 1, TRUE) }

FrameInputs == AudioFrames \cup VideoFrames \cup MalformedFrames

\* Append windows [start, end) a caller passes.
AppendWindows == { <<0, OpenWindowEnd>>, <<1, 3>> }

\* Values a caller passes as group start timestamp.
GroupStartInputs == {1}

\* Sample durations (1 / samples per second) of the audio configs.
SampleDurations == {1}

\* ------------------------------------------------------------------ state
VARIABLES
  \* FrameProcessor members
  sequence_mode_,                   \* bool
  group_start_timestamp_,           \* kNoTimestamp when unset
  group_end_timestamp_,
  pending_notify_all_group_start_,  \* bool
  track_buffers_,                   \* track id -> MseTrackBuffer
  audio_preroll_buffer_,            \* <<>> when NULL, else <<buffer>>
  sample_duration_,
  num_muxed_sequence_mode_warnings_,
  \* the caller's timestamp offset, passed by pointer to ProcessFrames
  timestamp_offset,
  \* the running ProcessFrames call
  pc,                    \* "idle", "frames" (between frames), "loop_top"
  append_window_start,
  append_window_end,
  frame,                 \* <<>> or <<the frame object ProcessFrame works on>>
  entry,                 \* the frame and processor values at ProcessFrame entry
  loop_iterations,       \* passes through the loop body for the current frame
  frames_processed,      \* frames of this batch handed to ProcessFrame
  frames_total,          \* frames handed to ProcessFrame by all calls
  merged_last_dts,       \* decode time of the previous frame of the merged batch
  calls,                 \* ProcessFrames calls made
  \* what the environment observed
  outcome,               \* how the last pass through the loop body ended
  result,                \* what the last ProcessFrames call returned ("true" or
                         \* "false"), "running" during a call, "none" before
  events,                \* calls made on sinks and callbacks by the last step
  sink,                  \* per track: what the stream has been handed
  call_log,              \* per call: frames enqueued / appended, callbacks run
  last_call,             \* the last call made, or ProcessFrames once the
                         \* call in progress has taken up a frame (calls
                         \* that register tracks and configs aside)
  parse_warnings,        \* how often parse_warning_cb_ was run, per warning
                         \* and, for a track buffer's warning, per track
  \* SourceBufferRangeByPts objects of the owning stream
  range,                 \* the range the calls are made on
  split_range,           \* <<>> or <<the range SplitRange returned>>
  range_result           \* what the last call on the range returned

processor_vars ==
  << sequence_mode_, group_start_timestamp_, group_end_timestamp_,
     pending_notify_all_group_start_, track_buffers_, audio_preroll_buffer_,
     sample_duration_, num_muxed_sequence_mode_warnings_, timestamp_offset,
     pc, append_window_start, append_window_end, frame, entry,
     loop_iterations, frames_processed, frames_total, merged_last_dts, calls,
     last_call, outcome,
     result, events, sink, call_log, parse_warnings >>

range_vars == << range, split_range, range_result >>

vars == << processor_vars, range_vars >>

\* --------------------------------------------------------- MseTrackBuffer
\* MseTrackBuffer::MseTrackBuffer
MseTrackBuffer(stream) ==
  [ last_decode_timestamp_ |-> kNoTimestamp,
    last_processed_decode_timestamp_ |-> 0,
    last_keyframe_presentation_timestamp_ |-> kNoTimestamp,
    last_frame_duration_ |-> kNoTimestamp,
    highest_presentation_timestamp_ |-> kNoTimestamp,
    needs_random_access_point_ |-> TRUE,
    stream_ |-> stream,
    processed_frames_ |-> <<>>,
    num_keyframe_time_greater_than_dependant_warnings_ |-> 0 ]

\* MseTrackBuffer::Reset that leaves the last decode timestamp in place.
MseTrackBuffer_Reset_KeepsLastDecode(tb) ==
  [ tb EXCEPT !.last_frame_duration_ = kNoTimestamp,
              !.highest_presentation_timestamp_ = kNoTimestamp,
              !.needs_random_access_point_ = TRUE,
              !.last_keyframe_presentation_timestamp_ = kNoTimestamp ]

\* MseTrackBuffer::Reset that also clears the last processed decode
\* timestamp.
MseTrackBuffer_Reset_ClearsLastProcessed(tb) ==
  [ tb EXCEPT !.last_decode_timestamp_ = kNoTimestamp,
              !.last_processed_decode_timestamp_ = 0,
              !.last_frame_duration_ = kNoTimestamp,
              !.highest_presentation_timestamp_ = kNoTimestamp,
              !.needs_random_access_point_ = TRUE,
              !.last_keyframe_presentation_timestamp_ = kNoTimestamp ]

\* MseTrackBuffer::Reset
MseTrackBuffer_Reset(tb) ==
  [ tb EXCEPT !.last_decode_timestamp_ = kNoTimestamp,
              !.last_frame_duration_ = kNoTimestamp,
              !.highest_presentation_timestamp_ = kNoTimestamp,
              !.needs_random_access_point_ = TRUE,
              !.last_keyframe_presentation_timestamp_ = kNoTimestamp ]

\* SetHighestPresentationTimestampIfIncreased that sets the timestamp
\* whether it is higher or not.
SetHighestPresentationTimestampIfIncreased_Always(tb, timestamp) ==
  [tb EXCEPT !.highest_presentation_timestamp_ = timestamp]

\* MseTrackBuffer::SetHighestPresentationTimestampIfIncreased
SetHighestPresentationTimestampIfIncreased(tb, timestamp) ==
  IF tb.highest_presentation_timestamp_ = kNoTimestamp
       \/ timestamp > tb.highest_presentation_timestamp_
  THEN [tb EXCEPT !.highest_presentation_timestamp_ = timestamp]
  ELSE tb

\* Whether EnqueueProcessedFrame runs the parse warning callback with
\* kKeyframeTimeGreaterThanDependant.
KeyframeTimeGreaterThanDependant(tb, f) ==
  /\ ~f.key
  /\ f.pts < tb.last_keyframe_presentation_timestamp_

\* LIMITED_MEDIA_LOG that does not count.
LimitedCount_Stuck(count, max) == count

\* LIMITED_MEDIA_LOG: the counter grows until it reaches its maximum.
LimitedCount(count, max) == IF count < max THEN count + 1 ELSE count

\* MseTrackBuffer::EnqueueProcessedFrame
EnqueueProcessedFrame(tb, f) ==
  [ tb EXCEPT
      !.last_keyframe_presentation_timestamp_ =
          IF f.key THEN f.pts ELSE @,
      !.num_keyframe_time_greater_than_dependant_warnings_ =
          IF KeyframeTimeGreaterThanDependant(tb, f)
          THEN LimitedCount(@, kMaxNumKeyframeTimeGreaterThanDependantWarnings)
          ELSE @,
      !.last_processed_decode_timestamp_ = f.dts,
      !.processed_frames_ = Append(@, f) ]

\* MseTrackBuffer::FlushProcessedFrames, the track buffer afterwards
TrackFlushProcessedFrames(tb) == [tb EXCEPT !.processed_frames_ = <<>>]

\* MseTrackBuffer::NotifyStartOfCodedFrameGroup, the track buffer afterwards
TrackNotifyStartOfCodedFrameGroup(tb, start_time) ==
  [ tb EXCEPT !.last_keyframe_presentation_timestamp_ = kNoTimestamp,
              !.last_processed_decode_timestamp_ = start_time ]

\* --------------------------------------------------------- FrameProcessor
\* The members of the FrameProcessor as one value.
Processor ==
  [ sequence_mode_ |-> sequence_mode_,
    group_start_timestamp_ |-> group_start_timestamp_,
    group_end_timestamp_ |-> group_end_timestamp_,
    pending_notify_all_group_start_ |-> pending_notify_all_group_start_,
    track_buffers_ |-> track_buffers_,
    audio_preroll_buffer_ |-> audio_preroll_buffer_,
    sample_duration_ |-> sample_duration_,
    timestamp_offset |-> timestamp_offset ]

\* A call observed by the environment: a sink's Append (frames, and whether
\* it succeeded), a sink's OnStartOfCodedFrameGroup (ts), the duration
\* update callback (ts), the parse warning callback (what).
Event(op, track, ts, frames, ok, what) ==
  [op |-> op, track |-> track, ts |-> ts, frames |-> frames, ok |-> ok,
   what |-> what]

AppendEvent(track, frames, ok) == Event("Append", track, 0, frames, ok, "")
GroupStartEvent(track, ts) == Event("OnStartOfCodedFrameGroup", track, ts, <<>>, TRUE, "")
UpdateDurationEvent(ts) == Event("UpdateDuration", 0, ts, <<>>, TRUE, "")
ParseWarningEvent(track, what) == Event("ParseWarning", track, 0, <<>>, TRUE, what)

\* The ids of a std::map of track buffers in iteration (ascending) order.
RECURSIVE IdsFrom(_, _)
IdsFrom(tbs, i) ==
  IF i > Cardinality(TrackIds) THEN <<>>
  ELSE (IF i \in DOMAIN tbs THEN <<i>> ELSE <<>>) \o IdsFrom(tbs, i + 1)

MapOrder(tbs) == IdsFrom(tbs, 1)

\* FrameProcessor::SetAllTrackBuffersNeedRandomAccessPoint
SetAllTrackBuffersNeedRandomAccessPoint(tbs) ==
  [id \in DOMAIN tbs |-> [tbs[id] EXCEPT !.needs_random_access_point_ = TRUE]]

\* FrameProcessor::Reset that leaves the group start timestamp alone.
ProcessorReset_KeepsGroupStart(fp) ==
  LET tbs == [id \in DOMAIN fp.track_buffers_ |->
                MseTrackBuffer_Reset(fp.track_buffers_[id])]
  IN IF ~fp.sequence_mode_
     THEN [fp EXCEPT !.track_buffers_ = tbs,
                     !.pending_notify_all_group_start_ = TRUE]
     ELSE [fp EXCEPT !.track_buffers_ = tbs]

\* FrameProcessor::Reset
ProcessorReset(fp) ==
  LET tbs == [id \in DOMAIN fp.track_buffers_ |->
                MseTrackBuffer_Reset(fp.track_buffers_[id])]
  IN IF ~fp.sequence_mode_
     THEN [fp EXCEPT !.track_buffers_ = tbs,
                     !.pending_notify_all_group_start_ = TRUE]
     ELSE [fp EXCEPT !.track_buffers_ = tbs,
                     !.group_start_timestamp_ = fp.group_end_timestamp_]

\* FrameProcessor::NotifyStartOfCodedFrameGroup, the track buffers afterwards
NotifyStartOfCodedFrameGroup(tbs, start_timestamp) ==
  [id \in DOMAIN tbs |->
     TrackNotifyStartOfCodedFrameGroup(tbs[id], start_timestamp)]

\* NotifyStartOfCodedFrameGroup that stops after the first track buffer.
NotifyAllEvents_FirstTrackOnly(tbs, start_timestamp) ==
  <<GroupStartEvent(MapOrder(tbs)[1], start_timestamp)>>

\* The sink calls FrameProcessor::NotifyStartOfCodedFrameGroup makes.
NotifyAllEvents(tbs, start_timestamp) ==
  [i \in 1..Len(MapOrder(tbs)) |->
     GroupStartEvent(MapOrder(tbs)[i], start_timestamp)]

\* FrameProcessor::FlushProcessedFrames, the track buffers afterwards
FlushProcessedFrames(tbs) ==
  [id \in DOMAIN tbs |-> TrackFlushProcessedFrames(tbs[id])]

\* The tracks whose stream FlushProcessedFrames calls Append on, in order.
FlushingTracks(tbs) ==
  SelectSeq(MapOrder(tbs), LAMBDA id : tbs[id].processed_frames_ # <<>>)

\* The Append calls FlushProcessedFrames makes; append_ok[id] is what the
\* stream of track id returns.
FlushEvents(tbs, append_ok) ==
  [i \in 1..Len(FlushingTracks(tbs)) |->
     LET id == FlushingTracks(tbs)[i]
     IN AppendEvent(id, tbs[id].processed_frames_, append_ok[id])]

\* FrameProcessor::FlushProcessedFrames, its return value
FlushResult(tbs, append_ok) ==
  \A id \in DOMAIN tbs : tbs[id].processed_frames_ # <<>> => append_ok[id]

Abs(x) == IF x < 0 THEN -x ELSE x

\* HandlePartialAppendWindowTrimming that marks the part before the window
\* for discard and shortens the buffer without moving its timestamp.
HandlePartialAppendWindowTrimming_PtsStays(window_start, window_end, buffer, preroll, sample_duration) ==
  LET frame_end_timestamp == buffer.pts + buffer.dur
  IN
  IF buffer.pts < window_start /\ frame_end_timestamp <= window_start
  THEN [ret |-> FALSE, buffer |-> buffer, preroll |-> <<buffer>>]
  ELSE IF buffer.pts >= window_end
  THEN [ret |-> FALSE, buffer |-> buffer, preroll |-> preroll]
  ELSE
    LET delta == IF preroll = <<>> THEN 0
                 ELSE preroll[1].pts + preroll[1].dur - buffer.pts
        attach == preroll # <<>> /\ Abs(delta) < sample_duration
        b1 == IF attach THEN [buffer EXCEPT !.preroll = TRUE] ELSE buffer
        trim_start == b1.pts < window_start
        b2 == IF trim_start
              THEN [b1 EXCEPT !.discard_front = window_start - b1.pts,
                              !.discard_back = 0,
                              !.dts = b1.dts + (window_start - b1.pts),
                              !.dur = frame_end_timestamp - window_start]
              ELSE b1
        trim_end == frame_end_timestamp > window_end
        b3 == IF trim_end
              THEN [b2 EXCEPT !.discard_back = frame_end_timestamp - window_end,
                              !.dur = window_end - b2.pts]
              ELSE b2
    IN [ret |-> attach \/ trim_start \/ trim_end, buffer |-> b3,
        preroll |-> <<>>]

\* HandlePartialAppendWindowTrimming that leaves the decode timestamp of a
\* buffer trimmed at the window start where it was.
HandlePartialAppendWindowTrimming_DtsStays(window_start, window_end, buffer, preroll, sample_duration) ==
  LET frame_end_timestamp == buffer.pts + buffer.dur
  IN
  IF buffer.pts < window_start /\ frame_end_timestamp <= window_start
  THEN [ret |-> FALSE, buffer |-> buffer, preroll |-> <<buffer>>]
  ELSE IF buffer.pts >= window_end
  THEN [ret |-> FALSE, buffer |-> buffer, preroll |-> preroll]
  ELSE
    LET delta == IF preroll = <<>> THEN 0
                 ELSE preroll[1].pts + preroll[1].dur - buffer.pts
        attach == preroll # <<>> /\ Abs(delta) < sample_duration
        b1 == IF attach THEN [buffer EXCEPT !.preroll = TRUE] ELSE buffer
        trim_start == b1.pts < window_start
        b2 == IF trim_start
              THEN [b1 EXCEPT !.discard_front = window_start - b1.pts,
                              !.discard_back = 0,
                              !.pts = window_start,
                              !.dur = frame_end_timestamp - window_start]
              ELSE b1
        trim_end == frame_end_timestamp > window_end
        b3 == IF trim_end
              THEN [b2 EXCEPT !.discard_back = frame_end_timestamp - window_end,
                              !.dur = window_end - b2.pts]
              ELSE b2
    IN [ret |-> attach \/ trim_start \/ trim_end, buffer |-> b3,
        preroll |-> <<>>]

\* FrameProcessor::HandlePartialAppendWindowTrimming.  The value has the
\* return value (ret), the buffer as it leaves the call and the preroll
\* buffer member afterwards.
HandlePartialAppendWindowTrimming(window_start, window_end, buffer, preroll, sample_duration) ==
  LET frame_end_timestamp == buffer.pts + buffer.dur
  IN
  IF buffer.pts < window_start /\ frame_end_timestamp <= window_start
  THEN [ret |-> FALSE, buffer |-> buffer, preroll |-> <<buffer>>]
  ELSE IF buffer.pts >= window_end
  THEN [ret |-> FALSE, buffer |-> buffer, preroll |-> preroll]
  ELSE
    LET delta == IF preroll = <<>> THEN 0
                 ELSE preroll[1].pts + preroll[1].dur - buffer.pts
        attach == preroll # <<>> /\ Abs(delta) < sample_duration
        b1 == IF attach THEN [buffer EXCEPT !.preroll = TRUE] ELSE buffer
        trim_start == b1.pts < window_start
        b2 == IF trim_start
              THEN [b1 EXCEPT !.discard_front = window_start - b1.pts,
                              !.discard_back = 0,
                              !.pts = window_start,
                              !.dts = b1.dts + (window_start - b1.pts),
                              !.dur = frame_end_timestamp - window_start]
              ELSE b1
        trim_end == frame_end_timestamp > window_end
        b3 == IF trim_end
              THEN [b2 EXCEPT !.discard_back = frame_end_timestamp - window_end,
                              !.dur = window_end - b2.pts]
              ELSE b2
    IN [ret |-> attach \/ trim_start \/ trim_end, buffer |-> b3,
        preroll |-> <<>>]

\* ProcessFrame, "Sanity check the timestamps" and the duration checks: the
\* first check that fails, "ok" when none does.
SanityCheck(f) ==
  IF f.pts = kNoTimestamp THEN "fail_no_pts"
  ELSE IF f.dts = kNoTimestamp THEN "fail_no_dts"
  ELSE IF f.dur = kNoTimestamp THEN "fail_no_duration"
  ELSE IF f.dur < 0 THEN "fail_negative_duration"
  ELSE "ok"

\* IsDiscontinuity that takes a delta of exactly twice the last frame
\* duration as a discontinuity.
IsDiscontinuity_AtTwice(tb, decode_timestamp) ==
  /\ tb.last_decode_timestamp_ # kNoTimestamp
  /\ LET track_dts_delta == decode_timestamp - tb.last_decode_timestamp_
     IN \/ track_dts_delta < 0
        \/ track_dts_delta >= 2 * tb.last_frame_duration_

\* ProcessFrame step 6: whether decode_timestamp is a discontinuity for the
\* track buffer.
IsDiscontinuity(tb, decode_timestamp) ==
  /\ tb.last_decode_timestamp_ # kNoTimestamp
  /\ LET track_dts_delta == decode_timestamp - tb.last_decode_timestamp_
     IN \/ track_dts_delta < 0
        \/ track_dts_delta > 2 * tb.last_frame_duration_

\* SequenceModeGroupStart that subtracts the other way round.
SequenceModeGroupStart_Reversed(fp, presentation_timestamp) ==
  [ fp EXCEPT
      !.timestamp_offset = presentation_timestamp - fp.group_start_timestamp_,
      !.group_end_timestamp_ = fp.group_start_timestamp_,
      !.track_buffers_ = SetAllTrackBuffersNeedRandomAccessPoint(@),
      !.group_start_timestamp_ = kNoTimestamp ]

\* ProcessFrame steps 3.1 - 3.4 (sequence mode with a group start timestamp).
SequenceModeGroupStart(fp, presentation_timestamp) ==
  [ fp EXCEPT
      !.timestamp_offset = fp.group_start_timestamp_ - presentation_timestamp,
      !.group_end_timestamp_ = fp.group_start_timestamp_,
      !.track_buffers_ = SetAllTrackBuffersNeedRandomAccessPoint(@),
      !.group_start_timestamp_ = kNoTimestamp ]

\* ProcessFrame steps 6.1 - 6.5 (a discontinuity was detected).
Discontinuity(fp, presentation_timestamp) ==
  ProcessorReset(
    IF ~fp.sequence_mode_
    THEN [fp EXCEPT !.group_end_timestamp_ = presentation_timestamp]
    ELSE fp)

\* The audio frame f0 as it came from the parser, key frame or not.
ForceAudioKeyFrame_Off(f0) == f0

\* ProcessFrame before its first step: an audio frame that is not marked as
\* a key frame is marked as one.
ForceAudioKeyFrame(f0) ==
  IF f0.type = AUDIO /\ ~f0.key THEN [f0 EXCEPT !.key = TRUE] ELSE f0

\* One pass through the loop of ProcessFrame, from "Loop Top" to the end of
\* step 6.  outcome is "fail_..." (return false), "continue" (restart the
\* processing of the frame) or "pass" (go on with step 7); pts and dts are
\* presentation_timestamp and decode_timestamp as computed by step 4.
LoopTop(fp, f0) ==
  LET f == ForceAudioKeyFrame(f0)
      checked == SanityCheck(f)
  IN
  IF checked # "ok"
  THEN [outcome |-> checked, fp |-> fp, frame |-> f, pts |-> f.pts,
        dts |-> f.dts]
  ELSE
    LET fp3 == IF fp.sequence_mode_ /\ fp.group_start_timestamp_ # kNoTimestamp
               THEN SequenceModeGroupStart(fp, f.pts)
               ELSE fp
        presentation_timestamp == f.pts + fp3.timestamp_offset
        decode_timestamp == f.dts + fp3.timestamp_offset
        out(o, p) == [outcome |-> o, fp |-> p, frame |-> f,
                      pts |-> presentation_timestamp, dts |-> decode_timestamp]
    IN
    IF f.track \notin DOMAIN fp3.track_buffers_
    THEN out("fail_unknown_track", fp3)
    ELSE IF f.type # fp3.track_buffers_[f.track].stream_.type
    THEN out("fail_type_mismatch", fp3)
    ELSE IF IsDiscontinuity(fp3.track_buffers_[f.track], decode_timestamp)
    THEN out("continue", Discontinuity(fp3, presentation_timestamp))
    ELSE out("pass", fp3)

\* OutsideAppendWindow that compares the start of the frame only.
OutsideAppendWindow_StartOnly(presentation_timestamp, frame_end_timestamp, window_start, window_end) ==
  presentation_timestamp < window_start

\* Whether ProcessFrame drops a frame as outside the append window.
OutsideAppendWindow(presentation_timestamp, frame_end_timestamp, window_start, window_end) ==
  \/ presentation_timestamp < window_start
  \/ frame_end_timestamp > window_end

\* NeedsGroupStart without the comparison against the last processed decode
\* timestamp of the track.
NeedsGroupStart_PendingOnly(fp, tb, decode_timestamp) ==
  fp.pending_notify_all_group_start_

\* Whether ProcessFrame signals a coded frame group start before enqueueing.
NeedsGroupStart(fp, tb, decode_timestamp) ==
  \/ fp.pending_notify_all_group_start_
  \/ tb.last_processed_decode_timestamp_ > decode_timestamp

\* ProcessFrame steps 17 - 20, after the frame b was enqueued.
UpdateAfterEnqueue(fp, id, decode_timestamp, frame_duration, frame_end_timestamp) ==
  [ fp EXCEPT
      !.track_buffers_[id] =
          SetHighestPresentationTimestampIfIncreased(
            [@ EXCEPT !.last_decode_timestamp_ = decode_timestamp,
                      !.last_frame_duration_ = frame_duration],
            frame_end_timestamp),
      !.group_end_timestamp_ =
          IF frame_end_timestamp > @ THEN frame_end_timestamp ELSE @ ]

\* DropsForRandomAccessPoint that lets every frame through.
DropsForRandomAccessPoint_Never(tb, b) == FALSE

\* ProcessFrame step 10.1: whether the frame b is dropped because the track
\* buffer needs a random access point.
DropsForRandomAccessPoint(tb, b) ==
  tb.needs_random_access_point_ /\ ~b.key

\* The parse warning EnqueueProcessedFrame reports for the frame b, if any.
EnqueueEvents(tb, id, b) ==
  IF KeyframeTimeGreaterThanDependant(tb, b)
       /\ tb.num_keyframe_time_greater_than_dependant_warnings_ = 0
  THEN <<ParseWarningEvent(id, "kKeyframeTimeGreaterThanDependant")>>
  ELSE <<>>

\* SignalGroupStart that signals without flushing the processed frames first.
SignalGroupStart_NoFlush(fp, id, decode_timestamp, append_ok) ==
  IF fp.pending_notify_all_group_start_
  THEN [ok |-> TRUE,
        fp |-> [fp EXCEPT
                  !.track_buffers_ =
                      NotifyStartOfCodedFrameGroup(@, decode_timestamp),
                  !.pending_notify_all_group_start_ = FALSE],
        events |-> NotifyAllEvents(fp.track_buffers_, decode_timestamp)]
  ELSE [ok |-> TRUE,
        fp |-> [fp EXCEPT
                  !.track_buffers_[id] =
                      TrackNotifyStartOfCodedFrameGroup(@, decode_timestamp)],
        events |-> <<GroupStartEvent(id, decode_timestamp)>>]

\* ProcessFrame where it signals a coded frame group start for the frame of
\* track id: the processed frames of all tracks are flushed first; if that
\* succeeds (ok) the group start is signalled to all tracks when a notify-all
\* is pending, else to track id alone.
SignalGroupStart(fp, id, decode_timestamp, append_ok) ==
  LET flushed == FlushProcessedFrames(fp.track_buffers_)
      flush_events == FlushEvents(fp.track_buffers_, append_ok)
  IN
  IF ~FlushResult(fp.track_buffers_, append_ok)
  THEN [ok |-> FALSE, fp |-> [fp EXCEPT !.track_buffers_ = flushed],
        events |-> flush_events]
  ELSE IF fp.pending_notify_all_group_start_
  THEN [ok |-> TRUE,
        fp |-> [fp EXCEPT
                  !.track_buffers_ =
                      NotifyStartOfCodedFrameGroup(flushed, decode_timestamp),
                  !.pending_notify_all_group_start_ = FALSE],
        events |-> flush_events \o NotifyAllEvents(flushed, decode_timestamp)]
  ELSE [ok |-> TRUE,
        fp |-> [fp EXCEPT
                  !.track_buffers_ =
                      [flushed EXCEPT ![id] =
                         TrackNotifyStartOfCodedFrameGroup(@, decode_timestamp)]],
        events |-> flush_events \o <<GroupStartEvent(id, decode_timestamp)>>]

\* One pass through the loop of ProcessFrame, from step 7 to its return.
\* outcome is "fail_..." (return false), "drop_window", "drop_rap" or
\* "enqueued" (return true); events are the calls made on the sinks.
LoopRest(fp, f, pts, dts, window_start, window_end, append_ok) ==
  LET id == f.track
      tb == fp.track_buffers_[id]
      frame_duration == f.dur
      f7 == [f EXCEPT !.pts = pts, !.dts = dts]
      trim == IF tb.stream_.partial
              THEN HandlePartialAppendWindowTrimming(
                     window_start, window_end, f7, fp.audio_preroll_buffer_,
                     fp.sample_duration_)
              ELSE [ret |-> FALSE, buffer |-> f7,
                    preroll |-> fp.audio_preroll_buffer_]
      b == trim.buffer
      decode_timestamp == IF trim.ret THEN b.dts ELSE dts
      presentation_timestamp == IF trim.ret THEN b.pts ELSE pts
      frame_end_timestamp == IF trim.ret THEN b.pts + b.dur
                             ELSE pts + frame_duration
      fp7 == [fp EXCEPT !.audio_preroll_buffer_ = trim.preroll]
      out(o, p, e) == [outcome |-> o, fp |-> p, frame |-> b, events |-> e]
  IN
  IF OutsideAppendWindow(presentation_timestamp, frame_end_timestamp,
                         window_start, window_end)
  THEN out("drop_window",
           [fp7 EXCEPT !.track_buffers_[id].needs_random_access_point_ = TRUE],
           <<>>)
  ELSE IF decode_timestamp < 0
  THEN out("fail_negative_dts", fp7, <<>>)
  ELSE IF DropsForRandomAccessPoint(tb, b)
  THEN out("drop_rap", fp7, <<>>)
  ELSE
    LET fp10 == [fp7 EXCEPT
                   !.track_buffers_[id].needs_random_access_point_ = FALSE]
        signal == IF NeedsGroupStart(fp10, tb, decode_timestamp)
                  THEN SignalGroupStart(fp10, id, decode_timestamp, append_ok)
                  ELSE [ok |-> TRUE, fp |-> fp10, events |-> <<>>]
    IN
    IF ~signal.ok
    THEN out("fail_flush", signal.fp, signal.events)
    ELSE out("enqueued",
             UpdateAfterEnqueue(
               [signal.fp EXCEPT !.track_buffers_[id] =
                                    EnqueueProcessedFrame(@, b)],
               id, decode_timestamp, frame_duration, frame_end_timestamp),
             signal.events
               \o EnqueueEvents(signal.fp.track_buffers_[id], id, b))

\* ------------------------------------------------------------ environment
\* What a track's stream has been handed: the decode times of the frames of
\* the most recent Append (appended), the decode time of the last frame
\* handed before that Append (before), the most recent group start
\* (group_start), whether a group start arrived between the two most recent
\* Appends (notified_between) or since the most recent one (notified_since).
NewSink ==
  [ appended |-> <<>>, before |-> kNoTimestamp, group_start |-> kNoTimestamp,
    notified_between |-> FALSE, notified_since |-> FALSE ]

DtsOf(frames) == [i \in 1..Len(frames) |-> frames[i].dts]

SinkAfter(sk, e) ==
  IF e.op = "Append"
  THEN [sk EXCEPT ![e.track] =
          [@ EXCEPT !.appended = DtsOf(e.frames),
                    !.before = IF sk[e.track].appended = <<>>
                               THEN sk[e.track].before
                               ELSE sk[e.track].appended[Len(sk[e.track].appended)],
                    !.notified_between = sk[e.track].notified_since,
                    !.notified_since = FALSE]]
  ELSE IF e.op = "OnStartOfCodedFrameGroup"
  THEN [sk EXCEPT ![e.track] =
          [@ EXCEPT !.group_start = e.ts, !.notified_since = TRUE]]
  ELSE sk

RECURSIVE SinkAfterAll(_, _)
SinkAfterAll(sk, es) ==
  IF es = <<>> THEN sk ELSE SinkAfterAll(SinkAfter(sk, Head(es)), Tail(es))

RECURSIVE FramesAppended(_)
FramesAppended(es) ==
  IF es = <<>> THEN 0
  ELSE (IF Head(es).op = "Append" THEN Len(Head(es).frames) ELSE 0)
       + FramesAppended(Tail(es))

\* No run of the parse warning callback yet.
NoParseWarnings ==
  [ kMuxedSequenceMode |-> 0,
    kKeyframeTimeGreaterThanDependant |-> [t \in TrackIds |-> 0] ]

\* The runs of the parse warning callback counted in pw, and those among the
\* calls es.
RECURSIVE ParseWarningsAfter(_, _)
ParseWarningsAfter(pw, es) ==
  IF es = <<>> THEN pw
  ELSE ParseWarningsAfter(
         IF Head(es).op # "ParseWarning" THEN pw
         ELSE IF Head(es).what = "kMuxedSequenceMode"
         THEN [pw EXCEPT !.kMuxedSequenceMode = @ + 1]
         ELSE [pw EXCEPT
                 !.kKeyframeTimeGreaterThanDependant[Head(es).track] = @ + 1],
         Tail(es))

\* The coded frame group starts signalled by the calls es: track and decode
\* timestamp of each.
GroupStartsSignalled(es) ==
  LET gs == SelectSeq(es, LAMBDA e : e.op = "OnStartOfCodedFrameGroup")
  IN [i \in 1..Len(gs) |-> <<gs[i].track, gs[i].ts>>]

\* What one ProcessFrames call did so far: frames enqueued, frames handed to
\* Append, the values the duration update callback was run with, the group
\* starts signalled, and which frames of the batch (counted from 1), with
\* which decode timestamp, were processed again after a discontinuity.
NewCallLog ==
  [enqueued |-> 0, appended |-> 0, update_duration |-> <<>>,
   group_starts |-> <<>>, restarts |-> <<>>]

\* What the streams may return from Append: a stream that is handed nothing
\* is not called.
AppendResults(tbs) ==
  { ok \in [TrackIds -> BOOLEAN] :
      \A id \in TrackIds :
        (id \notin DOMAIN tbs \/ tbs[id].processed_frames_ = <<>>) => ok[id] }

NoOutcome ==
  [ how |-> "none", track |-> 0, key |-> FALSE, pts |-> kNoTimestamp,
    dts |-> kNoTimestamp ]

NoEntry ==
  [ pts |-> kNoTimestamp, type |-> "none", key |-> FALSE,
    group_start_timestamp_ |-> kNoTimestamp, timestamp_offset |-> 0,
    after_reset |-> FALSE ]

\* The owner registers the tracks of the initialization segment, and hands
\* the audio config to OnPossibleAudioConfigUpdate, before it appends frames.
TracksRegistered ==
  /\ DOMAIN track_buffers_ = TrackIds
  /\ sample_duration_ # 0

\* ------------------------------------------------- SourceBufferRangeByPts
\* Model of media/filters/source_buffer_range_by_pts.cc.  A range is a record
\* of the members of SourceBufferRangeByPts and of its base class
\* SourceBufferRange; an operation is an operator from the range (and the
\* call's arguments) to the range after the call and what the call returned.
\* Positions are the zero-based indices of the code: the buffer at position i
\* of a range r is r.buffers_[i + 1], and next_buffer_index_ is -1 when the
\* range has no next buffer position.  An iterator into keyframe_map_ is <<>>
\* for end() and <<dts>> for the entry with key dts.

kNoDecodeTimestamp == kNoTimestamp

\* std::max
Max(a, b) == IF a >= b THEN a ELSE b

\* A StreamParserBuffer held by a range: pts = timestamp(),
\* dts = GetDecodeTimestamp(), dur = duration(), key = is_key_frame().
SizedBuffer(pts, dts, dur, key, data_size) ==
  [pts |-> pts, dts |-> dts, dur |-> dur, key |-> key, data_size |-> data_size]

\* Buffers the owning stream hands to a range.
RangeBuffers ==
  { SizedBuffer(d, d, 1, k, IF k THEN KeyFrameSize ELSE DeltaFrameSize) :
      d \in 0..MaxRangeTs, k \in BOOLEAN }

\* Buffer queues of at most n buffers, in nondecreasing decode order.
BufferQueues(n) ==
  { q \in UNION { [1..k -> RangeBuffers] : k \in 1..n } :
      \A i \in 1..(Len(q) - 1) : q[i].dts <= q[i + 1].dts }

BufferAt(r, i) == r.buffers_[i + 1]

\* An insert that replaces the entry of a key that is already in the map, as
\* keyframe_map_[dts] = index would.
KeyframeMapInsert_Overwrites(keyframe_map, dts, index) ==
  [d \in DOMAIN keyframe_map \cup {dts} |->
     IF d = dts THEN index ELSE keyframe_map[d]]

\* std::map<DecodeTimestamp, int>::insert: an entry whose key is already in
\* the map is not replaced.
KeyframeMapInsert(keyframe_map, dts, index) ==
  IF dts \in DOMAIN keyframe_map
    THEN keyframe_map
    ELSE [d \in DOMAIN keyframe_map \cup {dts} |->
            IF d = dts THEN index ELSE keyframe_map[d]]

\* keyframe_map_.erase(itr, keyframe_map_.end()): the entries before itr stay.
KeyframeMapEraseFrom(keyframe_map, itr) ==
  IF itr = <<>>
    THEN keyframe_map
    ELSE [d \in {k \in DOMAIN keyframe_map : k < itr[1]} |-> keyframe_map[d]]

\* keyframe_map_.erase(itr) of the one entry itr.
KeyframeMapErase(keyframe_map, itr) ==
  [d \in DOMAIN keyframe_map \ {itr[1]} |-> keyframe_map[d]]

MinOf(S) == CHOOSE x \in S : \A y \in S : x <= y
MaxOf(S) == CHOOSE x \in S : \A y \in S : y <= x

\* keyframe_map_.begin() and the entry before keyframe_map_.end().
KeyframeMapBegin(keyframe_map) ==
  IF DOMAIN keyframe_map = {} THEN <<>> ELSE << MinOf(DOMAIN keyframe_map) >>

KeyframeMapBack(keyframe_map) ==
  IF DOMAIN keyframe_map = {} THEN <<>> ELSE << MaxOf(DOMAIN keyframe_map) >>

\* SourceBufferRange::UpdateEndTime: highest_frame_ is modelled by the end
\* (presentation timestamp plus duration) of the frame it points at, and by
\* kNoTimestamp when it is null.
UpdateEndTime(highest_frame, buffer) ==
  IF highest_frame = kNoTimestamp \/ highest_frame < buffer.pts + buffer.dur
    THEN buffer.pts + buffer.dur
    ELSE highest_frame

\* SourceBufferRange::GetApproximateDuration: what interbuffer_distance_cb_
\* reports.
GetApproximateDuration(r) == ApproximateDuration

\* SourceBufferRange::GetFudgeRoom
GetFudgeRoom(r) == 2 * GetApproximateDuration(r)

\* SourceBufferRange::IsNextInDecodeSequence, for a range that allows no gaps.
IsNextInDecodeSequence(r, decode_timestamp) ==
  LET end == r.buffers_[Len(r.buffers_)].dts
  IN  \/ end = decode_timestamp
      \/ /\ end < decode_timestamp
         /\ decode_timestamp <= end + GetFudgeRoom(r)

\* SourceBufferRange::HasNextBufferPosition
HasNextBufferPosition(r) == r.next_buffer_index_ >= 0

\* SourceBufferRange::HasNextBuffer
HasNextBuffer(r) ==
  r.next_buffer_index_ >= 0 /\ r.next_buffer_index_ < Len(r.buffers_)

\* SourceBufferRange::GetNextBuffer: the buffer at the next buffer position is
\* handed out and the position moves past it, possibly to one beyond the last
\* buffer.
GetNextBuffer(r) == [r EXCEPT !.next_buffer_index_ = @ + 1]

\* SourceBufferRange::ResetNextBufferPosition
ResetNextBufferPosition(r) == [r EXCEPT !.next_buffer_index_ = -1]

\* A round of the loop that leaves size_in_bytes_ alone.
AppendBuffer_SizeUncounted(r, buffer) ==
  [r EXCEPT
     !.buffers_ = Append(@, buffer),
     !.highest_frame_ = UpdateEndTime(@, buffer),
     !.keyframe_map_ =
        IF buffer.key
          THEN KeyframeMapInsert(@, buffer.dts,
                 (Len(r.buffers_) + 1) - 1 + r.keyframe_map_index_base_)
          ELSE @]

\* One round of the loop of AppendBuffersToEnd.
AppendBuffer(r, buffer) ==
  [r EXCEPT
     !.buffers_ = Append(@, buffer),
     !.highest_frame_ = UpdateEndTime(@, buffer),
     !.size_in_bytes_ = @ + buffer.data_size,
     !.keyframe_map_ =
        IF buffer.key
          THEN KeyframeMapInsert(@, buffer.dts,
                 (Len(r.buffers_) + 1) - 1 + r.keyframe_map_index_base_)
          ELSE @]

RECURSIVE AppendBuffersToEnd(_, _, _)
\* SourceBufferRangeByPts::AppendBuffersToEnd
AppendBuffersToEnd(r, new_buffers, new_buffers_group_start_timestamp) ==
  IF new_buffers = <<>>
    THEN r
    ELSE AppendBuffersToEnd(AppendBuffer(r, Head(new_buffers)),
           Tail(new_buffers), new_buffers_group_start_timestamp)

\* SourceBufferRangeByPts::SourceBufferRangeByPts
SourceBufferRangeByPts(new_buffers, range_start_decode_time) ==
  AppendBuffersToEnd(
    [ buffers_ |-> <<>>,
      keyframe_map_ |-> [d \in {} |-> 0],
      keyframe_map_index_base_ |-> 0,
      size_in_bytes_ |-> 0,
      next_buffer_index_ |-> -1,
      range_start_decode_time_ |-> range_start_decode_time,
      highest_frame_ |-> kNoTimestamp ],
    new_buffers, range_start_decode_time)

\* SourceBufferRangeByPts::GetStartTimestamp
GetStartTimestamp(r) ==
  IF r.range_start_decode_time_ = kNoDecodeTimestamp
    THEN r.buffers_[1].dts
    ELSE r.range_start_decode_time_

\* SourceBufferRangeByPts::GetEndTimestamp
GetEndTimestamp(r) == r.buffers_[Len(r.buffers_)].dts

\* SourceBufferRangeByPts::GetBufferedEndTimestamp
GetBufferedEndTimestamp(r) ==
  LET duration == r.buffers_[Len(r.buffers_)].dur
  IN  GetEndTimestamp(r) +
        (IF duration = kNoTimestamp \/ duration = 0
           THEN GetApproximateDuration(r) ELSE duration)

\* SourceBufferRangeByPts::CanAppendBuffersToEnd
CanAppendBuffersToEnd(r, buffers, new_buffers_group_start_timestamp) ==
  IF new_buffers_group_start_timestamp = kNoDecodeTimestamp
    THEN IsNextInDecodeSequence(r, buffers[1].dts)
    ELSE IsNextInDecodeSequence(r, new_buffers_group_start_timestamp)

\* SourceBufferRangeByPts::CanAppendRangeToEnd
CanAppendRangeToEnd(r, other) ==
  CanAppendBuffersToEnd(r, other.buffers_, kNoDecodeTimestamp)

\* An AppendRangeToEnd that never takes over the other range's position.
AppendRangeToEnd_NoTransfer(r, other, transfer_current_position) ==
  AppendBuffersToEnd(r, other.buffers_, kNoDecodeTimestamp)

\* SourceBufferRangeByPts::AppendRangeToEnd
AppendRangeToEnd(r, other, transfer_current_position) ==
  AppendBuffersToEnd(
    IF transfer_current_position /\ other.next_buffer_index_ >= 0
      THEN [r EXCEPT !.next_buffer_index_ =
                       other.next_buffer_index_ + Len(r.buffers_)]
      ELSE r,
    other.buffers_, kNoDecodeTimestamp)

\* SourceBufferRangeByPts::GetFirstKeyframeAt
GetFirstKeyframeAt(r, timestamp, skip_given_timestamp) ==
  LET later == { d \in DOMAIN r.keyframe_map_ :
                   IF skip_given_timestamp THEN d > timestamp
                                           ELSE d >= timestamp }
  IN  IF later = {} THEN <<>> ELSE << MinOf(later) >>

\* A lookup that steps back from an entry at the very timestamp too.
GetFirstKeyframeAtOrBefore_StepsBack(r, timestamp) ==
  LET keyframe == GetFirstKeyframeAt(r, timestamp, FALSE)
      earlier == { d \in DOMAIN r.keyframe_map_ : d < timestamp }
  IN  IF keyframe # KeyframeMapBegin(r.keyframe_map_)
        THEN << MaxOf(earlier) >>
        ELSE keyframe

\* SourceBufferRangeByPts::GetFirstKeyframeAtOrBefore
GetFirstKeyframeAtOrBefore(r, timestamp) ==
  LET keyframe == GetFirstKeyframeAt(r, timestamp, FALSE)
      earlier == { d \in DOMAIN r.keyframe_map_ : d < timestamp }
  IN  IF keyframe # KeyframeMapBegin(r.keyframe_map_)
           /\ (keyframe = <<>> \/ keyframe[1] # timestamp)
        THEN << MaxOf(earlier) >>
        ELSE keyframe

\* A GetBufferItrAt that never skips the buffers at the timestamp.
GetBufferItrAt_Inclusive(r, timestamp, skip_given_timestamp) ==
  LET later == { i \in 0..(Len(r.buffers_) - 1) :
                   ~(BufferAt(r, i).dts < timestamp) }
  IN  IF later = {} THEN Len(r.buffers_) ELSE MinOf(later)

\* SourceBufferRangeByPts::GetBufferItrAt: the position of the first buffer
\* at (after, with skip_given_timestamp) the timestamp, the number of buffers
\* for buffers_.end().
GetBufferItrAt(r, timestamp, skip_given_timestamp) ==
  LET later == { i \in 0..(Len(r.buffers_) - 1) :
                   IF skip_given_timestamp
                     THEN timestamp < BufferAt(r, i).dts
                     ELSE ~(BufferAt(r, i).dts < timestamp) }
  IN  IF later = {} THEN Len(r.buffers_) ELSE MinOf(later)

\* SourceBufferRangeByPts::CanSeekTo
CanSeekTo(r, timestamp) ==
  LET start_timestamp == Max(0, GetStartTimestamp(r) - GetFudgeRoom(r))
  IN  /\ DOMAIN r.keyframe_map_ # {}
      /\ start_timestamp <= timestamp
      /\ timestamp < GetBufferedEndTimestamp(r)

\* SourceBufferRangeByPts::Seek
Seek(r, timestamp) ==
  LET keyframe == GetFirstKeyframeAtOrBefore(r, timestamp)
  IN  [r EXCEPT !.next_buffer_index_ =
                  r.keyframe_map_[keyframe[1]] - r.keyframe_map_index_base_]

RECURSIVE FreeBuffers(_, _)
\* The loop of SourceBufferRange::FreeBufferRange over the buffers it frees.
FreeBuffers(size_in_bytes, freed) ==
  IF freed = <<>>
    THEN size_in_bytes
    ELSE FreeBuffers(size_in_bytes - Head(freed).data_size, Tail(freed))

\* SourceBufferRange::FreeBufferRange(starting_point, buffers_.end())
FreeBufferRange(r, starting_point) ==
  [r EXCEPT
     !.size_in_bytes_ =
        FreeBuffers(@, SubSeq(r.buffers_, starting_point + 1, Len(r.buffers_))),
     !.buffers_ = SubSeq(@, 1, starting_point)]

RECURSIVE UpdateEndTimeAll(_, _)
\* The loop of UpdateEndTimeUsingLastGOP.
UpdateEndTimeAll(highest_frame, buffers) ==
  IF buffers = <<>>
    THEN highest_frame
    ELSE UpdateEndTimeAll(UpdateEndTime(highest_frame, Head(buffers)),
                          Tail(buffers))

\* SourceBufferRangeByPts::UpdateEndTimeUsingLastGOP
UpdateEndTimeUsingLastGOP(r) ==
  IF r.buffers_ = <<>> \/ DOMAIN r.keyframe_map_ = {}
    THEN [r EXCEPT !.highest_frame_ = kNoTimestamp]
    ELSE LET last_gop == KeyframeMapBack(r.keyframe_map_)
             first == r.keyframe_map_[last_gop[1]] - r.keyframe_map_index_base_
         IN  [r EXCEPT !.highest_frame_ =
                UpdateEndTimeAll(kNoTimestamp,
                  SubSeq(r.buffers_, first + 1, Len(r.buffers_)))]

\* A SplitRange that leaves the next buffer position with this range.
SplitAtKeyframe_CursorStays(r, timestamp, new_beginning_keyframe) ==
      IF new_beginning_keyframe = <<>>
        THEN [this |-> r, split_range |-> <<>>]
        ELSE
          LET keyframe_index ==
                r.keyframe_map_[new_beginning_keyframe[1]]
                  - r.keyframe_map_index_base_
              removed_buffers ==
                SubSeq(r.buffers_, keyframe_index + 1, Len(r.buffers_))
              new_range_start_decode_timestamp ==
                IF GetStartTimestamp(r) < r.buffers_[1].dts
                     /\ timestamp < removed_buffers[1].dts
                  THEN timestamp
                  ELSE kNoDecodeTimestamp
              kept ==
                UpdateEndTimeUsingLastGOP(
                  FreeBufferRange(
                    [r EXCEPT !.keyframe_map_ =
                       KeyframeMapEraseFrom(@, new_beginning_keyframe)],
                    keyframe_index))
              split == SourceBufferRangeByPts(removed_buffers,
                                              new_range_start_decode_timestamp)
          IN  [this |-> kept, split_range |-> << split >>]

\* SourceBufferRangeByPts::SplitRange once new_beginning_keyframe is found:
\* the range after the call and the range returned (<<>> for NULL).
SplitAtKeyframe(r, timestamp, new_beginning_keyframe) ==
      IF new_beginning_keyframe = <<>>
        THEN [this |-> r, split_range |-> <<>>]
        ELSE
          LET keyframe_index ==
                r.keyframe_map_[new_beginning_keyframe[1]]
                  - r.keyframe_map_index_base_
              removed_buffers ==
                SubSeq(r.buffers_, keyframe_index + 1, Len(r.buffers_))
              new_range_start_decode_timestamp ==
                IF GetStartTimestamp(r) < r.buffers_[1].dts
                     /\ timestamp < removed_buffers[1].dts
                  THEN timestamp
                  ELSE kNoDecodeTimestamp
              kept ==
                UpdateEndTimeUsingLastGOP(
                  FreeBufferRange(
                    [r EXCEPT !.keyframe_map_ =
                       KeyframeMapEraseFrom(@, new_beginning_keyframe)],
                    keyframe_index))
              split == SourceBufferRangeByPts(removed_buffers,
                                              new_range_start_decode_timestamp)
          IN  IF kept.next_buffer_index_ >= Len(kept.buffers_)
                THEN [this |-> ResetNextBufferPosition(kept),
                      split_range |->
                        << [split EXCEPT !.next_buffer_index_ =
                              kept.next_buffer_index_ - keyframe_index] >>]
                ELSE [this |-> kept, split_range |-> << split >>]

\* A SplitRange that looks for the first key frame after the timestamp.
SplitRange_AfterTimestamp(r, timestamp) ==
  SplitAtKeyframe(r, timestamp, GetFirstKeyframeAt(r, timestamp, TRUE))

\* SourceBufferRangeByPts::SplitRange
SplitRange(r, timestamp) ==
  SplitAtKeyframe(r, timestamp, GetFirstKeyframeAt(r, timestamp, FALSE))

\* SourceBufferRangeByPts::GetNextTimestamp
GetNextTimestamp(r) ==
  IF r.next_buffer_index_ >= Len(r.buffers_)
    THEN kNoDecodeTimestamp
    ELSE BufferAt(r, r.next_buffer_index_).dts

\* SourceBufferRangeByPts::TruncateAt(const BufferQueue::iterator&,
\* BufferQueue*): the range after the call, the buffers handed back in
\* removed_buffers (has_removed_buffers: the pointer is not null) and the
\* value returned.
TruncateAtItr(r, starting_point, has_removed_buffers) ==
  IF starting_point = Len(r.buffers_)
    THEN [this |-> r, removed_buffers |-> <<>>, result |-> r.buffers_ = <<>>]
    ELSE
      LET starting_dts == BufferAt(r, starting_point).dts
          next_is_removed ==
            /\ HasNextBufferPosition(r)
            /\ \/ GetNextTimestamp(r) = kNoDecodeTimestamp
               \/ GetNextTimestamp(r) >= starting_dts
          saved ==
            IF next_is_removed /\ HasNextBuffer(r) /\ has_removed_buffers
              THEN LET next_buffer_offset ==
                         r.next_buffer_index_ - starting_point
                   IN  SubSeq(r.buffers_,
                              starting_point + next_buffer_offset + 1,
                              Len(r.buffers_))
              ELSE <<>>
          r1 == IF next_is_removed THEN ResetNextBufferPosition(r) ELSE r
          starting_point_keyframe ==
            GetFirstKeyframeAt(r1, starting_dts, FALSE)
          r2 == [r1 EXCEPT !.keyframe_map_ =
                   KeyframeMapEraseFrom(@, starting_point_keyframe)]
          r3 == UpdateEndTimeUsingLastGOP(FreeBufferRange(r2, starting_point))
      IN  [this |-> r3, removed_buffers |-> saved,
           result |-> r3.buffers_ = <<>>]

\* SourceBufferRangeByPts::TruncateAt(DecodeTimestamp, BufferQueue*, bool)
TruncateAt(r, timestamp, has_removed_buffers, is_exclusive) ==
  TruncateAtItr(r, GetBufferItrAt(r, timestamp, is_exclusive),
                has_removed_buffers)

\* SourceBufferRangeByPts::FirstGOPContainsNextBufferPosition
FirstGOPContainsNextBufferPosition(r) ==
  IF ~HasNextBufferPosition(r)
    THEN FALSE
    ELSE IF Cardinality(DOMAIN r.keyframe_map_) = 1
      THEN TRUE
      ELSE LET second_gop ==
                 GetFirstKeyframeAt(r, KeyframeMapBegin(r.keyframe_map_)[1], TRUE)
           IN  r.next_buffer_index_
                 < r.keyframe_map_[second_gop[1]] - r.keyframe_map_index_base_

\* SourceBufferRangeByPts::LastGOPContainsNextBufferPosition
LastGOPContainsNextBufferPosition(r) ==
  IF ~HasNextBufferPosition(r)
    THEN FALSE
    ELSE IF Cardinality(DOMAIN r.keyframe_map_) = 1
      THEN TRUE
      ELSE LET last_gop == KeyframeMapBack(r.keyframe_map_)
           IN  r.keyframe_map_[last_gop[1]] - r.keyframe_map_index_base_
                 <= r.next_buffer_index_

RECURSIVE PopFront(_, _)
\* The loop of DeleteGOPFromFront: `rounds` more buffers are taken from the
\* front of the range; s holds the range, the bytes deleted and the buffers
\* put in deleted_buffers so far.
PopFront(s, rounds) ==
  IF rounds <= 0
    THEN s
    ELSE
      LET bytes_deleted == s.this.buffers_[1].data_size
      IN  PopFront(
            [this |-> [s.this EXCEPT
                         !.size_in_bytes_ = @ - bytes_deleted,
                         !.buffers_ = Tail(@)],
             result |-> s.result + bytes_deleted,
             deleted_buffers |-> Append(s.deleted_buffers, s.this.buffers_[1]),
             buffers_deleted |-> s.buffers_deleted + 1],
            rounds - 1)

\* SourceBufferRangeByPts::DeleteGOPFromFront: the range after the call, the
\* buffers put in deleted_buffers and the number of bytes returned.
DeleteGOPFromFront(r) ==
  LET front == KeyframeMapBegin(r.keyframe_map_)
      r1 == [r EXCEPT !.keyframe_map_ = KeyframeMapErase(@, front)]
      end_index ==
        IF Cardinality(DOMAIN r1.keyframe_map_) > 0
          THEN r1.keyframe_map_[KeyframeMapBegin(r1.keyframe_map_)[1]]
                 - r1.keyframe_map_index_base_
          ELSE Len(r1.buffers_)
      s == PopFront([this |-> r1, result |-> 0, deleted_buffers |-> <<>>,
                     buffers_deleted |-> 0], end_index)
      r2 == [s.this EXCEPT
               !.keyframe_map_index_base_ = @ + s.buffers_deleted,
               !.next_buffer_index_ =
                  IF @ > -1 THEN @ - s.buffers_deleted ELSE @,
               !.range_start_decode_time_ =
                  IF s.buffers_deleted > 0 THEN kNoDecodeTimestamp ELSE @,
               !.highest_frame_ =
                  IF s.buffers_deleted > 0 /\ s.this.buffers_ = <<>>
                    THEN kNoTimestamp ELSE @]
  IN  [this |-> r2, deleted_buffers |-> s.deleted_buffers,
       result |-> s.result]

RECURSIVE PopBack(_, _)
\* The loop of DeleteGOPFromBack: buffers are taken from the back of the
\* range until goal_size buffers are left.
PopBack(s, goal_size) ==
  IF Len(s.this.buffers_) = goal_size \/ s.this.buffers_ = <<>>
    THEN s
    ELSE
      LET back == s.this.buffers_[Len(s.this.buffers_)]
          bytes_deleted == back.data_size
      IN  PopBack(
            [this |-> [s.this EXCEPT
                         !.size_in_bytes_ = @ - bytes_deleted,
                         !.buffers_ = SubSeq(@, 1, Len(@) - 1)],
             result |-> s.result + bytes_deleted,
             deleted_buffers |-> << back >> \o s.deleted_buffers],
            goal_size)

\* A DeleteGOPFromBack that stops one buffer early and so leaves the key frame
\* of the last GOP in the range.
DeleteGOPFromBack_KeepsKeyFrame(r) ==
  LET back == KeyframeMapBack(r.keyframe_map_)
      goal_size == r.keyframe_map_[back[1]] - r.keyframe_map_index_base_ + 1
      r1 == [r EXCEPT !.keyframe_map_ = KeyframeMapErase(@, back)]
      s == PopBack([this |-> r1, result |-> 0, deleted_buffers |-> <<>>],
                   goal_size)
  IN  [this |-> s.this,
       deleted_buffers |-> s.deleted_buffers, result |-> s.result]

\* SourceBufferRangeByPts::DeleteGOPFromBack
DeleteGOPFromBack(r) ==
  LET back == KeyframeMapBack(r.keyframe_map_)
      goal_size == r.keyframe_map_[back[1]] - r.keyframe_map_index_base_
      r1 == [r EXCEPT !.keyframe_map_ = KeyframeMapErase(@, back)]
      s == PopBack([this |-> r1, result |-> 0, deleted_buffers |-> <<>>],
                   goal_size)
  IN  [this |-> UpdateEndTimeUsingLastGOP(s.this),
       deleted_buffers |-> s.deleted_buffers, result |-> s.result]

\* ++itr on an iterator into keyframe_map_.
KeyframeMapNext(keyframe_map, itr) ==
  LET later == { d \in DOMAIN keyframe_map : d > itr[1] }
  IN  IF later = {} THEN <<>> ELSE << MinOf(later) >>

\* --itr on an iterator into keyframe_map_ that is not begin().
KeyframeMapPrev(keyframe_map, itr) ==
  LET earlier == { d \in DOMAIN keyframe_map : itr = <<>> \/ d < itr[1] }
  IN  << MaxOf(earlier) >>

RECURSIVE GopSize(_, _, _)
\* The inner loop of GetRemovalGOP: data_size() summed over the buffers from
\* position buffer_itr up to position next_gop_start.
GopSize(r, buffer_itr, next_gop_start) ==
  IF buffer_itr >= next_gop_start \/ buffer_itr >= Len(r.buffers_)
    THEN 0
    ELSE BufferAt(r, buffer_itr).data_size
           + GopSize(r, buffer_itr + 1, next_gop_start)

RECURSIVE RemovalLoop(_, _, _, _, _, _)
\* The while loop of GetRemovalGOP: the iterator and the bytes it ends with.
RemovalLoop(r, gop_itr, gop_end, buffer_itr, bytes_removed, total_bytes_to_free) ==
  IF gop_itr = gop_end \/ gop_itr = <<>>
       \/ ~(bytes_removed < total_bytes_to_free)
    THEN [gop_itr |-> gop_itr, bytes_removed |-> bytes_removed]
    ELSE
      LET next_itr == KeyframeMapNext(r.keyframe_map_, gop_itr)
          next_gop_index ==
            IF next_itr = <<>>
              THEN Len(r.buffers_)
              ELSE r.keyframe_map_[next_itr[1]] - r.keyframe_map_index_base_
      IN  RemovalLoop(r, next_itr, gop_end, next_gop_index,
            bytes_removed + GopSize(r, buffer_itr, next_gop_index),
            total_bytes_to_free)

\* SourceBufferRangeByPts::GetRemovalGOP: the value returned and what is
\* written to removal_end_timestamp (<<>> when nothing is written).
GetRemovalGOP(r, start_timestamp, end_timestamp, total_bytes_to_free) ==
  LET gop_itr == GetFirstKeyframeAt(r, start_timestamp, FALSE)
  IN  IF gop_itr = <<>>
        THEN [result |-> 0, removal_end_timestamp |-> <<>>]
        ELSE
          LET keyframe_index ==
                r.keyframe_map_[gop_itr[1]] - r.keyframe_map_index_base_
              gop_end_0 ==
                IF end_timestamp < GetBufferedEndTimestamp(r)
                  THEN GetFirstKeyframeAtOrBefore(r, end_timestamp)
                  ELSE <<>>
              gop_end ==
                IF gop_itr # KeyframeMapBegin(r.keyframe_map_)
                     /\ KeyframeMapPrev(r.keyframe_map_, gop_itr) = gop_end_0
                  THEN gop_itr
                  ELSE gop_end_0
              loop == RemovalLoop(r, gop_itr, gop_end, keyframe_index, 0,
                                  total_bytes_to_free)
          IN  [result |-> loop.bytes_removed,
               removal_end_timestamp |->
                 IF loop.bytes_removed > 0
                   THEN IF loop.gop_itr = <<>>
                          THEN << GetBufferedEndTimestamp(r) >>
                          ELSE << loop.gop_itr[1] >>
                   ELSE <<>>]

\* A NextKeyframeTimestamp for which the gap before the first buffer begins
\* at the range start itself.
NextKeyframeTimestamp_GapFromStart(r, timestamp) ==
  IF timestamp < GetStartTimestamp(r)
       \/ timestamp >= GetBufferedEndTimestamp(r)
    THEN kNoDecodeTimestamp
    ELSE
      LET itr == GetFirstKeyframeAt(r, timestamp, FALSE)
      IN  IF itr = <<>>
            THEN kNoDecodeTimestamp
            ELSE IF /\ itr = KeyframeMapBegin(r.keyframe_map_)
                    /\ timestamp >= r.range_start_decode_time_
                    /\ timestamp < itr[1]
                   THEN timestamp
                   ELSE itr[1]

\* SourceBufferRangeByPts::NextKeyframeTimestamp
NextKeyframeTimestamp(r, timestamp) ==
  IF timestamp < GetStartTimestamp(r)
       \/ timestamp >= GetBufferedEndTimestamp(r)
    THEN kNoDecodeTimestamp
    ELSE
      LET itr == GetFirstKeyframeAt(r, timestamp, FALSE)
      IN  IF itr = <<>>
            THEN kNoDecodeTimestamp
            ELSE IF /\ itr = KeyframeMapBegin(r.keyframe_map_)
                    /\ timestamp > r.range_start_decode_time_
                    /\ timestamp < itr[1]
                   THEN timestamp
                   ELSE itr[1]

\* SourceBufferRangeByPts::KeyframeBeforeTimestamp
KeyframeBeforeTimestamp(r, timestamp) ==
  IF timestamp < GetStartTimestamp(r)
       \/ timestamp >= GetBufferedEndTimestamp(r)
    THEN kNoDecodeTimestamp
    ELSE GetFirstKeyframeAtOrBefore(r, timestamp)[1]

RECURSIVE GetBuffersFrom(_, _, _, _, _, _)
\* The loop of GetBuffersInRange from position it on: the value returned and
\* the queue the caller's out parameter ends as.  A range holds no end of
\* stream buffer.
GetBuffersFrom(r, it, start, end, previous_size, buffers) ==
  IF it >= Len(r.buffers_)
    THEN [result |-> previous_size < Len(buffers), buffers |-> buffers]
    ELSE
      LET buffer == BufferAt(r, it)
      IN  IF buffer.dur = kNoTimestamp \/ buffer.dur <= 0
            THEN [result |-> FALSE, buffers |-> buffers]
            ELSE IF buffer.pts >= end
              THEN [result |-> previous_size < Len(buffers),
                    buffers |-> buffers]
              ELSE IF buffer.pts + buffer.dur <= start
                THEN GetBuffersFrom(r, it + 1, start, end, previous_size,
                                    buffers)
                ELSE GetBuffersFrom(r, it + 1, start, end, previous_size,
                                    Append(buffers, buffer))

\* SourceBufferRangeByPts::GetBuffersInRange
GetBuffersInRange(r, start, end, buffers) ==
  LET first_timestamp == KeyframeBeforeTimestamp(r, start)
  IN  IF first_timestamp = kNoDecodeTimestamp
        THEN [result |-> FALSE, buffers |-> buffers]
        ELSE GetBuffersFrom(r, GetBufferItrAt(r, first_timestamp, FALSE),
                            start, end, Len(buffers), buffers)

\* No range: the owning stream has not constructed one.
NoRange == <<>>
\* What a call on a range handed back: the call made, the value it returned
\* (a number of bytes, a boolean as "true" or "false", "range" or "NULL" for
\* SplitRange, "void" otherwise) and the buffers it put in its out parameter.
RangeResult(call, value, out) == [call |-> call, result |-> value, out |-> out]

NoRangeResult == RangeResult("none", "void", <<>>)

\* ------------------------------------------------------------------- Init
\* FrameProcessor::FrameProcessor.  The constructor initializes
\* group_start_timestamp_; the time members it does not mention are
\* default-constructed (zero), the counter starts at zero and the two flags
\* it does not mention may hold either value.
FrameProcessor ==
  /\ sequence_mode_ \in BOOLEAN
  /\ group_start_timestamp_ = kNoTimestamp
  /\ group_end_timestamp_ = 0
  /\ pending_notify_all_group_start_ \in BOOLEAN
  /\ track_buffers_ = <<>>
  /\ audio_preroll_buffer_ = <<>>
  /\ sample_duration_ = 0
  /\ num_muxed_sequence_mode_warnings_ = 0
  /\ parse_warnings = NoParseWarnings
  /\ timestamp_offset = 0
  /\ pc = "idle"
  /\ append_window_start = 0
  /\ append_window_end = OpenWindowEnd
  /\ frame = <<>>
  /\ entry = NoEntry
  /\ loop_iterations = 0
  /\ frames_processed = 0
  /\ frames_total = 0
  /\ merged_last_dts = kNoTimestamp
  /\ calls = 0
  /\ outcome = NoOutcome
  /\ result = "none"
  /\ events = <<>>
  /\ sink = [id \in TrackIds |-> NewSink]
  /\ call_log = NewCallLog
  /\ last_call = "FrameProcessor"

\* The processor after construction; its owner has constructed no range.
Init ==
  /\ FrameProcessor
  /\ range = NoRange
  /\ split_range = <<>>
  /\ range_result = NoRangeResult

\* Whether the behaviour's bounds allow another ProcessFrames call.
MoreAppends == calls < MaxCalls /\ frames_total < MaxFrames

\* A call other than ProcessFrames: it is made while no ProcessFrames call
\* runs (and, in a bounded behaviour, while another one may follow), and the
\* record of the previous ProcessFrames call is dropped.
BetweenAppends ==
  /\ pc = "idle"
  /\ MoreAppends
  /\ frame' = <<>>
  /\ entry' = NoEntry
  /\ loop_iterations' = 0
  /\ frames_processed' = 0
  /\ outcome' = NoOutcome
  /\ result' = "none"
  /\ events' = <<>>
  /\ call_log' = NewCallLog
  /\ UNCHANGED << range_vars, num_muxed_sequence_mode_warnings_, timestamp_offset, pc,
                  append_window_start, append_window_end, frames_total,
                  merged_last_dts, calls, sink, parse_warnings >>

\* ---------------------------------------------------------------- actions
\* FrameProcessor::AddTrack
AddTrack(id, stream) ==
  /\ BetweenAppends
  /\ id \notin DOMAIN track_buffers_
  /\ UNCHANGED last_call
  /\ track_buffers_' =
       [i \in DOMAIN track_buffers_ \cup {id} |->
          IF i = id THEN MseTrackBuffer(stream) ELSE track_buffers_[i]]
  /\ UNCHANGED << sequence_mode_, group_start_timestamp_, group_end_timestamp_,
                  pending_notify_all_group_start_, audio_preroll_buffer_,
                  sample_duration_ >>

SetSequenceMode_KeepsGroupStart(sequence_mode) ==
  /\ BetweenAppends
  /\ last_call' = "SetSequenceMode"
  /\ pending_notify_all_group_start_' =
       IF ~sequence_mode /\ sequence_mode_ THEN TRUE
       ELSE pending_notify_all_group_start_
  /\ sequence_mode_' = sequence_mode
  /\ UNCHANGED << group_start_timestamp_, group_end_timestamp_,
                  track_buffers_, audio_preroll_buffer_, sample_duration_ >>

\* FrameProcessor::SetSequenceMode
SetSequenceMode(sequence_mode) ==
  /\ BetweenAppends
  /\ last_call' = "SetSequenceMode"
  /\ group_start_timestamp_' =
       IF sequence_mode THEN group_end_timestamp_ ELSE group_start_timestamp_
  /\ pending_notify_all_group_start_' =
       IF ~sequence_mode /\ sequence_mode_ THEN TRUE
       ELSE pending_notify_all_group_start_
  /\ sequence_mode_' = sequence_mode
  /\ UNCHANGED << group_end_timestamp_, track_buffers_, audio_preroll_buffer_,
                  sample_duration_ >>

\* FrameProcessor::SetGroupStartTimestampIfInSequenceMode
SetGroupStartTimestampIfInSequenceMode(ts) ==
  /\ BetweenAppends
  /\ last_call' = "SetGroupStartTimestampIfInSequenceMode"
  /\ group_start_timestamp_' =
       IF sequence_mode_ THEN ts ELSE group_start_timestamp_
  /\ audio_preroll_buffer_' = <<>>
  /\ UNCHANGED << sequence_mode_, group_end_timestamp_,
                  pending_notify_all_group_start_, track_buffers_,
                  sample_duration_ >>

\* FrameProcessor::OnPossibleAudioConfigUpdate; a config is told from the
\* current one by its sample duration.
OnPossibleAudioConfigUpdate(config_sample_duration) ==
  /\ BetweenAppends
  /\ UNCHANGED last_call
  /\ audio_preroll_buffer_' = <<>>
  /\ sample_duration_' = config_sample_duration
  /\ UNCHANGED << sequence_mode_, group_start_timestamp_, group_end_timestamp_,
                  pending_notify_all_group_start_, track_buffers_ >>

\* FrameProcessor::Reset, called by the owner between appends
Reset ==
  /\ BetweenAppends
  /\ last_call' = "Reset"
  /\ sequence_mode_' = ProcessorReset(Processor).sequence_mode_
  /\ group_start_timestamp_' = ProcessorReset(Processor).group_start_timestamp_
  /\ group_end_timestamp_' = ProcessorReset(Processor).group_end_timestamp_
  /\ pending_notify_all_group_start_' =
       ProcessorReset(Processor).pending_notify_all_group_start_
  /\ track_buffers_' = ProcessorReset(Processor).track_buffers_
  /\ UNCHANGED << audio_preroll_buffer_, sample_duration_ >>

\* ProcessFrames that counts the muxed sequence mode warning before it
\* merges the queues.
ProcessFramesNotInDtsSequence_WarnsFirst ==
  /\ pc = "idle"
  /\ MoreAppends
  /\ TracksRegistered
  /\ result' = "false"
  /\ outcome' = [NoOutcome EXCEPT !.how = "fail_merge"]
  /\ call_log' = NewCallLog
  /\ events' = <<>>
  /\ frames_processed' = 0
  /\ frame' = <<>>
  /\ entry' = NoEntry
  /\ loop_iterations' = 0
  /\ num_muxed_sequence_mode_warnings_' =
       IF sequence_mode_ /\ Cardinality(DOMAIN track_buffers_) > 1
       THEN LimitedCount(num_muxed_sequence_mode_warnings_,
                         kMaxMuxedSequenceModeWarnings)
       ELSE num_muxed_sequence_mode_warnings_
  /\ UNCHANGED << range_vars, sequence_mode_, group_start_timestamp_, group_end_timestamp_,
                  pending_notify_all_group_start_, track_buffers_,
                  audio_preroll_buffer_, sample_duration_, timestamp_offset, pc,
                  append_window_start, append_window_end, frames_total,
                  merged_last_dts, calls, sink, parse_warnings >>
  /\ last_call' = "ProcessFrames"

\* FrameProcessor::ProcessFrames when MergeBufferQueues fails: the call
\* returns false at once.
ProcessFramesNotInDtsSequence ==
  /\ pc = "idle"
  /\ MoreAppends
  /\ TracksRegistered
  /\ result' = "false"
  /\ outcome' = [NoOutcome EXCEPT !.how = "fail_merge"]
  /\ call_log' = NewCallLog
  /\ events' = <<>>
  /\ frames_processed' = 0
  /\ frame' = <<>>
  /\ entry' = NoEntry
  /\ loop_iterations' = 0
  /\ UNCHANGED << range_vars, sequence_mode_, group_start_timestamp_, group_end_timestamp_,
                  pending_notify_all_group_start_, track_buffers_,
                  audio_preroll_buffer_, sample_duration_,
                  num_muxed_sequence_mode_warnings_, timestamp_offset, pc,
                  append_window_start, append_window_end, frames_total,
                  merged_last_dts, calls, sink, parse_warnings >>
  /\ last_call' = "ProcessFrames"

\* FrameProcessor::ProcessFrames from its entry to the head of the loop over
\* the merged frames: the merge succeeded, the muxed sequence mode warning.
StartProcessFrames(window) ==
  LET muxed == sequence_mode_ /\ Cardinality(DOMAIN track_buffers_) > 1
  IN
  /\ pc = "idle"
  /\ MoreAppends
  /\ TracksRegistered
  /\ calls' = calls + 1
  /\ pc' = "frames"
  /\ append_window_start' = window[1]
  /\ append_window_end' = window[2]
  /\ num_muxed_sequence_mode_warnings_' =
       IF muxed
       THEN LimitedCount(num_muxed_sequence_mode_warnings_,
                         kMaxMuxedSequenceModeWarnings)
       ELSE num_muxed_sequence_mode_warnings_
  /\ events' =
       IF muxed /\ num_muxed_sequence_mode_warnings_ = 0
       THEN <<ParseWarningEvent(0, "kMuxedSequenceMode")>>
       ELSE <<>>
  /\ parse_warnings' = ParseWarningsAfter(parse_warnings, events')
  /\ frames_processed' = 0
  /\ merged_last_dts' = kNoTimestamp
  /\ loop_iterations' = 0
  /\ frame' = <<>>
  /\ entry' = NoEntry
  /\ outcome' = NoOutcome
  /\ result' = "running"
  /\ call_log' = NewCallLog
  /\ UNCHANGED << range_vars, sequence_mode_, group_start_timestamp_, group_end_timestamp_,
                  pending_notify_all_group_start_, track_buffers_,
                  audio_preroll_buffer_, sample_duration_, timestamp_offset,
                  frames_total, sink, last_call >>

\* One pass through the loop body of ProcessFrame for the frame f: LoopTop
\* and, when it passes, LoopRest.
LoopBody(fp, f, window_start, window_end, append_ok) ==
  LET top == LoopTop(fp, f)
  IN IF top.outcome # "pass"
     THEN [outcome |-> top.outcome, fp |-> top.fp, frame |-> top.frame,
           events |-> <<>>, pts |-> top.pts, dts |-> top.dts]
     ELSE LET rest == LoopRest(top.fp, top.frame, top.pts, top.dts,
                               window_start, window_end, append_ok)
          IN [outcome |-> rest.outcome, fp |-> rest.fp, frame |-> rest.frame,
              events |-> rest.events, pts |-> top.pts, dts |-> top.dts]

\* Whether a pass through the loop body makes ProcessFrame return false.
Failed(how) == how \notin {"continue", "drop_window", "drop_rap", "enqueued"}

\* FlushesBeforeReturn of a ProcessFrames that returns false without flushing.
FlushesBeforeReturn_Never(how) == FALSE

\* ProcessFrames, when ProcessFrame returned false: whether the processed
\* frames are flushed before ProcessFrames returns false.
FlushesBeforeReturn(how) == Failed(how)

\* What ProcessFrames does when a pass through the loop body of ProcessFrame
\* ended as `pass` says: on false it flushes the processed frames and returns
\* false, on true it goes on with the next frame, on "continue" the frame is
\* processed again.
AfterLoopBody(f, pass, append_ok) ==
  LET how == pass.outcome
      es == pass.events
            \o (IF FlushesBeforeReturn(how)
                THEN FlushEvents(pass.fp.track_buffers_, append_ok)
                ELSE <<>>)
  IN
  /\ sequence_mode_' = pass.fp.sequence_mode_
  /\ group_start_timestamp_' = pass.fp.group_start_timestamp_
  /\ group_end_timestamp_' = pass.fp.group_end_timestamp_
  /\ pending_notify_all_group_start_' = pass.fp.pending_notify_all_group_start_
  /\ track_buffers_' = IF FlushesBeforeReturn(how)
                       THEN FlushProcessedFrames(pass.fp.track_buffers_)
                       ELSE pass.fp.track_buffers_
  /\ audio_preroll_buffer_' = pass.fp.audio_preroll_buffer_
  /\ sample_duration_' = pass.fp.sample_duration_
  /\ timestamp_offset' = pass.fp.timestamp_offset
  /\ frame' = IF how = "continue" THEN <<pass.frame>> ELSE <<>>
  /\ outcome' = [how |-> how, track |-> f.track, key |-> pass.frame.key,
                 pts |-> pass.pts, dts |-> pass.dts]
  /\ events' = es
  /\ sink' = SinkAfterAll(sink, es)
  /\ parse_warnings' = ParseWarningsAfter(parse_warnings, es)
  /\ call_log' =
       [call_log EXCEPT
          !.enqueued = IF how = "enqueued" THEN @ + 1 ELSE @,
          !.appended = @ + FramesAppended(es),
          !.group_starts = @ \o GroupStartsSignalled(es),
          !.restarts = IF how = "continue"
                       THEN Append(@, <<frames_processed', pass.dts>>)
                       ELSE @]
  /\ pc' = IF Failed(how) THEN "idle"
           ELSE IF how = "continue" THEN "loop_top" ELSE "frames"
  /\ result' = IF Failed(how) THEN "false" ELSE result
  /\ UNCHANGED << range_vars, num_muxed_sequence_mode_warnings_, append_window_start,
                  append_window_end, calls >>

LoopPass(f, append_ok) ==
  \E pass \in { LoopBody(Processor, f, append_window_start, append_window_end,
                         append_ok) } :
    AfterLoopBody(f, pass, append_ok)

\* MergeBufferQueues hands ProcessFrames the frames of all tracks in one
\* queue in decode order: f may follow the frames handed over so far.
InDtsSequence(f) == f.dts >= merged_last_dts

\* FrameProcessor::ProcessFrame is entered with the next frame of the merged
\* batch (frames come in the decode order MergeBufferQueues produces).
ProcessNextFrame(f) ==
  /\ pc = "frames"
  /\ InDtsSequence(f)
  /\ frames_processed' = frames_processed + 1
  /\ frames_total' = frames_total + 1
  /\ merged_last_dts' = f.dts
  /\ loop_iterations' = 1
  /\ entry' = [ pts |-> f.pts, type |-> f.type, key |-> f.key,
                group_start_timestamp_ |-> group_start_timestamp_,
                timestamp_offset |-> timestamp_offset,
                after_reset |-> last_call = "Reset" ]
  /\ last_call' = "ProcessFrames"
  /\ \E append_ok \in AppendResults(track_buffers_) : LoopPass(f, append_ok)

\* ProcessFrame for a frame of a behaviour that has room for another frame.
ProcessFrame(f) ==
  /\ frames_total < MaxFrames
  /\ ProcessNextFrame(f)

\* "Jump to the Loop Top step above to restart processing of the current
\* coded frame": the next pass through the loop body for the same frame.
ReprocessFrame ==
  /\ pc = "loop_top"
  /\ loop_iterations' =
       IF loop_iterations < MaxIter THEN loop_iterations + 1 ELSE loop_iterations
  /\ UNCHANGED << frames_processed, frames_total, merged_last_dts, entry,
                  last_call >>
  /\ \E append_ok \in AppendResults(track_buffers_) :
       LoopPass(frame[1], append_ok)

\* FinalEvents that runs the duration update whatever the final flush returns.
FinalEvents_UpdateAlways(tbs, append_ok, group_end_timestamp) ==
  FlushEvents(tbs, append_ok) \o <<UpdateDurationEvent(group_end_timestamp)>>

\* The calls FrameProcessor::ProcessFrames makes after the last frame: the
\* final flush and, if it succeeds, the duration update with the group end
\* timestamp.
FinalEvents(tbs, append_ok, group_end_timestamp) ==
  FlushEvents(tbs, append_ok)
    \o (IF FlushResult(tbs, append_ok)
        THEN <<UpdateDurationEvent(group_end_timestamp)>>
        ELSE <<>>)

\* The values the duration update callback is run with by the calls es.
DurationUpdates(es) ==
  LET ups == SelectSeq(es, LAMBDA e : e.op = "UpdateDuration")
  IN [i \in 1..Len(ups) |-> ups[i].ts]

\* FrameProcessor::ProcessFrames after the last frame: the final flush and,
\* if it succeeds, the duration update.
FinishProcessFrames(append_ok) ==
  LET es == FinalEvents(track_buffers_, append_ok, group_end_timestamp_)
      ok == FlushResult(track_buffers_, append_ok)
  IN
  /\ pc = "frames"
  /\ frames_processed >= 1
  /\ track_buffers_' = FlushProcessedFrames(track_buffers_)
  /\ events' = es
  /\ sink' = SinkAfterAll(sink, es)
  /\ parse_warnings' = ParseWarningsAfter(parse_warnings, es)
  /\ call_log' =
       [call_log EXCEPT
          !.appended = @ + FramesAppended(es),
          !.update_duration = @ \o DurationUpdates(es)]
  /\ result' = IF ok THEN "true" ELSE "false"
  /\ outcome' = [NoOutcome EXCEPT
                   !.how = IF ok THEN "done" ELSE "fail_final_flush"]
  /\ pc' = "idle"
  /\ entry' = NoEntry
  /\ UNCHANGED << range_vars, sequence_mode_, group_start_timestamp_, group_end_timestamp_,
                  pending_notify_all_group_start_, audio_preroll_buffer_,
                  sample_duration_, num_muxed_sequence_mode_warnings_,
                  timestamp_offset, append_window_start, append_window_end,
                  frame, loop_iterations, frames_processed, frames_total,
                  merged_last_dts, calls >>
  /\ last_call' = "ProcessFrames"

Next ==
  \/ \E id \in TrackIds : AddTrack(id, StreamFor(id))
  \/ \E sequence_mode \in BOOLEAN : SetSequenceMode(sequence_mode)
  \/ \E ts \in GroupStartInputs : SetGroupStartTimestampIfInSequenceMode(ts)
  \/ \E d \in SampleDurations : OnPossibleAudioConfigUpdate(d)
  \/ Reset
  \/ ProcessFramesNotInDtsSequence
  \/ \E window \in AppendWindows : StartProcessFrames(window)
  \/ \E f \in FrameInputs : ProcessFrame(f)
  \/ ReprocessFrame
  \/ \E append_ok \in AppendResults(track_buffers_) :
       FinishProcessFrames(append_ok)

Spec == Init /\ [][Next]_vars

\* ------------------------------------------- one batch in segments mode
\* A fresh processor in segments mode is handed one batch of frames of one
\* track: frames with DTS = PTS in {0, 10, 20, 30} and duration 10, all key
\* frames but the one at 20, or some of them, in decode order, under the
\* append window [5, 35) or an open one.
ScenarioFrames ==
  { Buffer(id, StreamFor(id).type, d, d, 10, d # 20) :
      id \in TrackIds, d \in {0, 10, 20, 30} }

ScenarioWindows == { <<5, 35>>, <<0, OpenWindowEnd>> }

ScenarioInit == Init /\ ~sequence_mode_

\* The next frame of the batch: of the track of the frames before it, and
\* later in decode order.
ProcessScenarioFrame(f) ==
  /\ calls = 1
  /\ frames_processed > 0 => f.dts > merged_last_dts
  /\ entry # NoEntry => f.type = entry.type
  /\ ProcessNextFrame(f)

ScenarioNext ==
  \/ \E id \in TrackIds : AddTrack(id, StreamFor(id))
  \/ \E d \in SampleDurations : OnPossibleAudioConfigUpdate(d)
  \/ \E window \in ScenarioWindows : calls = 0 /\ StartProcessFrames(window)
  \/ \E f \in ScenarioFrames : ProcessScenarioFrame(f)
  \/ ReprocessFrame
  \/ \E append_ok \in AppendResults(track_buffers_) :
       calls = 1 /\ FinishProcessFrames(append_ok)

ScenarioSpec == ScenarioInit /\ [][ScenarioNext]_vars

\* ------------------------------------------- partial append window trimming
\* Largest presentation timestamp and duration of the audio frames trimmed.
MaxTrimTs == 2
MaxTrimDuration == 3

\* The audio frames handed to HandlePartialAppendWindowTrimming: key frames
\* (ProcessFrame marks every audio frame as one) with a duration of zero or
\* more, a decode timestamp at or before the presentation timestamp, and
\* possibly end padding to discard already.
TrimFrames ==
  { [Buffer(1, AUDIO, p, d, dur, TRUE) EXCEPT !.discard_back = back] :
      p \in 0..MaxTrimTs, d \in 0..MaxTrimTs, dur \in 0..MaxTrimDuration,
      back \in {0, 1} }
    \ { b \in [track : {1}, type : {AUDIO}, pts : 0..MaxTrimTs,
               dts : 0..MaxTrimTs, dur : 0..MaxTrimDuration, key : {TRUE},
               discard_front : {0}, discard_back : {0, 1}, preroll : {FALSE}] :
          b.dts > b.pts \/ b.dts < b.pts - 1 }

\* Append windows: start before end.
TrimWindows ==
  { w \in (0..(MaxTrimTs + 2)) \X (0..(MaxTrimTs + 2)) : w[1] < w[2] }

\* A ProcessFrames call with an append window is running on a processor
\* with an audio track and an audio config.
TrimInit ==
  /\ sequence_mode_ \in BOOLEAN
  /\ group_start_timestamp_ = kNoTimestamp
  /\ group_end_timestamp_ = 0
  /\ pending_notify_all_group_start_ \in BOOLEAN
  /\ track_buffers_ = [id \in {1} |-> MseTrackBuffer(StreamFor(id))]
  /\ audio_preroll_buffer_ = <<>>
  /\ sample_duration_ \in SampleDurations
  /\ num_muxed_sequence_mode_warnings_ = 0
  /\ parse_warnings = NoParseWarnings
  /\ timestamp_offset = 0
  /\ pc = "frames"
  /\ \E w \in TrimWindows :
       /\ append_window_start = w[1]
       /\ append_window_end = w[2]
  /\ frame = <<>>
  /\ entry = NoEntry
  /\ loop_iterations = 0
  /\ frames_processed = 0
  /\ frames_total = 0
  /\ merged_last_dts = kNoTimestamp
  /\ calls = 1
  /\ outcome = NoOutcome
  /\ result = "running"
  /\ events = <<>>
  /\ sink = [id \in TrackIds |-> NewSink]
  /\ call_log = NewCallLog
  /\ last_call = "ProcessFrames"
  /\ range = NoRange
  /\ split_range = <<>>
  /\ range_result = NoRangeResult

\* FrameProcessor::HandlePartialAppendWindowTrimming is called with buffer
\* and the append window of the running call: the buffer is modified in place
\* and the preroll buffer member is updated.  The call is recorded with the
\* buffer as passed and the value returned.
CallHandlePartialAppendWindowTrimming(buffer) ==
  LET r == HandlePartialAppendWindowTrimming(
             append_window_start, append_window_end, buffer,
             audio_preroll_buffer_, sample_duration_)
  IN
  /\ pc = "frames"
  /\ buffer.dur >= 0
  /\ buffer.type = AUDIO
  /\ buffer.key
  /\ frame' = <<r.buffer>>
  /\ audio_preroll_buffer_' = r.preroll
  /\ events' = <<Event("HandlePartialAppendWindowTrimming", buffer.track, 0,
                       <<buffer>>, r.ret, "")>>
  /\ UNCHANGED << range_vars, sequence_mode_, group_start_timestamp_,
                  group_end_timestamp_, pending_notify_all_group_start_,
                  track_buffers_, sample_duration_,
                  num_muxed_sequence_mode_warnings_, timestamp_offset, pc,
                  append_window_start, append_window_end, entry,
                  loop_iterations, frames_processed, frames_total,
                  merged_last_dts, calls, last_call, outcome, result, sink,
                  call_log, parse_warnings >>

\* The function is applied to a frame from the parser, or once more to the
\* frame it has just worked on.
TrimNext ==
  \/ \E buffer \in TrimFrames : CallHandlePartialAppendWindowTrimming(buffer)
  \/ frame # <<>> /\ CallHandlePartialAppendWindowTrimming(frame[1])

TrimSpec == TrimInit /\ [][TrimNext]_vars

\* ------------------------------------------------------ track id changes
\* Track ids a parser may rename tracks from and to.
MaxTrackId == 3

\* A unique_ptr<MseTrackBuffer> that was moved from.
NullTrackBuffer == [null |-> TRUE]

\* TrackIdChanges: a map from old to new track ids.
TrackIdChangeInputs ==
  UNION { [ids -> (1..MaxTrackId)] : ids \in (SUBSET (1..MaxTrackId)) \ {{}} }

\* UpdateTrackIds, the loop over track_id_changes in key order: todo are the
\* old ids still to visit, old is track_buffers_ (which the loop erases
\* from) and new is new_track_buffers.
RECURSIVE MoveChangedTracks(_, _, _, _)
MoveChangedTracks(old, new, track_id_changes, todo) ==
  IF todo = {} THEN [ok |-> TRUE, old |-> old, new |-> new]
  ELSE
    LET first == MinOf(todo)
        second == track_id_changes[first]
    IN  IF first \notin DOMAIN old \/ second \in DOMAIN new
        THEN [ok |-> FALSE, old |-> old, new |-> new]
        ELSE MoveChangedTracks(
               [id \in DOMAIN old \ {first} |-> old[id]],
               [id \in DOMAIN new \cup {second} |->
                  IF id = second THEN old[first] ELSE new[id]],
               track_id_changes, todo \ {first})

\* UpdateTrackIds, the loop over the remaining track buffers: each is moved
\* to new_track_buffers under its own id, which leaves a moved-from pointer
\* in track_buffers_.
RECURSIVE MoveUnchangedTracks(_, _, _)
MoveUnchangedTracks(old, new, todo) ==
  IF todo = {} THEN [ok |-> TRUE, old |-> old, new |-> new]
  ELSE
    LET t == MinOf(todo)
    IN  IF t \in DOMAIN new
        THEN [ok |-> FALSE, old |-> old, new |-> new]
        ELSE MoveUnchangedTracks(
               [old EXCEPT ![t] = NullTrackBuffer],
               [id \in DOMAIN new \cup {t} |->
                  IF id = t THEN old[t] ELSE new[id]],
               todo \ {t})

\* FrameProcessor::UpdateTrackIds: the value returned and track_buffers_
\* afterwards.  old_track_buffers is a reference to track_buffers_, so what
\* the loops erase and move from is gone from track_buffers_ when the
\* function returns false.
UpdateTrackIds(track_buffers, track_id_changes) ==
  LET changed == MoveChangedTracks(track_buffers, [id \in {} |-> 0],
                                   track_id_changes, DOMAIN track_id_changes)
      rest == MoveUnchangedTracks(changed.old, changed.new, DOMAIN changed.old)
  IN  IF ~changed.ok THEN [ret |-> FALSE, track_buffers_ |-> changed.old]
      ELSE IF ~rest.ok THEN [ret |-> FALSE, track_buffers_ |-> rest.old]
      ELSE [ret |-> TRUE, track_buffers_ |-> rest.new]

\* FrameProcessor::UpdateTrackIds is called between appends.
CallUpdateTrackIds(track_id_changes) ==
  LET r == UpdateTrackIds(track_buffers_, track_id_changes)
  IN
  /\ BetweenAppends
  /\ track_buffers_' = r.track_buffers_
  /\ last_call' = IF r.ret THEN "UpdateTrackIds" ELSE "UpdateTrackIds failed"
  /\ UNCHANGED << sequence_mode_, group_start_timestamp_, group_end_timestamp_,
                  pending_notify_all_group_start_, audio_preroll_buffer_,
                  sample_duration_ >>

\* Tracks are registered and renamed.
TrackIdNext ==
  \/ \E id \in (1..MaxTrackId), stream_id \in TrackIds :
       AddTrack(id, StreamFor(stream_id))
  \/ \E track_id_changes \in TrackIdChangeInputs :
       CallUpdateTrackIds(track_id_changes)

TrackIdSpec == Init /\ [][TrackIdNext]_vars

\* ------------------------------------- calls on a SourceBufferRangeByPts
\* The owning stream constructs a range from a buffer queue that starts with
\* a key frame, then calls its operations one at a time.  It calls them on a
\* range that holds buffers (it destroys a range that a call has emptied) and
\* keeps to the DCHECKs at the head of each operation.

\* Timestamps the owning stream passes to a range.
RangeTimestamps == 0..(MaxRangeTs + 1)

\* The buffers the range has been handed since its construction, the ones
\* deleted from its front included.
BuffersHandled(r) == r.keyframe_map_index_base_ + Len(r.buffers_)

\* The buffers held by the range SplitRange returned, if it still exists.
BuffersSplitOff == IF split_range = <<>> THEN 0 ELSE Len(split_range[1].buffers_)

RangeInit ==
  /\ FrameProcessor
  /\ sequence_mode_ = FALSE
  /\ pending_notify_all_group_start_ = FALSE
  /\ \E new_buffers \in BufferQueues(MaxQueue) :
       /\ new_buffers[1].key
       /\ \E range_start_decode_time \in
               {kNoDecodeTimestamp} \cup 0..new_buffers[1].dts :
            range = SourceBufferRangeByPts(new_buffers, range_start_decode_time)
  /\ split_range = <<>>
  /\ range_result = RangeResult("SourceBufferRangeByPts", "void", <<>>)

CallAppendBuffersToEnd(new_buffers, new_buffers_group_start_timestamp) ==
  /\ range.buffers_ # <<>>
  /\ BuffersHandled(range) + BuffersSplitOff + Len(new_buffers)
       <= MaxRangeBuffers
  /\ CanAppendBuffersToEnd(range, new_buffers,
                           new_buffers_group_start_timestamp)
  /\ new_buffers_group_start_timestamp # kNoDecodeTimestamp =>
       /\ new_buffers_group_start_timestamp >= GetEndTimestamp(range)
       /\ new_buffers[1].dts >= new_buffers_group_start_timestamp
  /\ range' = AppendBuffersToEnd(range, new_buffers,
                                 new_buffers_group_start_timestamp)
  /\ range_result' = RangeResult("AppendBuffersToEnd", "void", <<>>)
  /\ UNCHANGED << split_range, processor_vars >>

\* AppendRangeToEnd with the range SplitRange returned, which the owning
\* stream then destroys.
CallAppendRangeToEnd(transfer_current_position) ==
  /\ range.buffers_ # <<>>
  /\ split_range # <<>>
  /\ BuffersHandled(range) + Len(split_range[1].buffers_) <= MaxRangeBuffers
  /\ CanAppendRangeToEnd(range, split_range[1])
  /\ range' = AppendRangeToEnd(range, split_range[1],
                               transfer_current_position)
  /\ split_range' = <<>>
  /\ range_result' = RangeResult("AppendRangeToEnd", "void", <<>>)
  /\ UNCHANGED processor_vars

CallSeek(timestamp) ==
  /\ range.buffers_ # <<>>
  /\ CanSeekTo(range, timestamp)
  /\ range' = Seek(range, timestamp)
  /\ range_result' = RangeResult("Seek", "void", <<>>)
  /\ UNCHANGED << split_range, processor_vars >>

CallGetNextBuffer ==
  /\ range.buffers_ # <<>>
  /\ HasNextBuffer(range)
  /\ range' = GetNextBuffer(range)
  /\ range_result' = RangeResult("GetNextBuffer", "void",
                                 << BufferAt(range, range.next_buffer_index_) >>)
  /\ UNCHANGED << split_range, processor_vars >>

CallSplitRange(timestamp) ==
  /\ range.buffers_ # <<>>
  /\ split_range = <<>>
  /\ LET split == SplitRange(range, timestamp)
     IN  /\ range' = split.this
         /\ split_range' = split.split_range
         /\ range_result' =
              RangeResult("SplitRange",
                          IF split.split_range = <<>> THEN "NULL" ELSE "range",
                          <<>>)
  /\ UNCHANGED processor_vars

\* ~SourceBufferRangeByPts of the range SplitRange returned.
DeleteSplitRange ==
  /\ split_range # <<>>
  /\ split_range' = <<>>
  /\ range_result' = RangeResult("~SourceBufferRangeByPts", "void", <<>>)
  /\ UNCHANGED << range, processor_vars >>

CallTruncateAt(timestamp, has_removed_buffers, is_exclusive) ==
  /\ range.buffers_ # <<>>
  /\ LET truncated ==
           TruncateAt(range, timestamp, has_removed_buffers, is_exclusive)
     IN  /\ range' = truncated.this
         /\ range_result' =
              RangeResult("TruncateAt",
                          IF truncated.result THEN "true" ELSE "false",
                          truncated.removed_buffers)
  /\ UNCHANGED << split_range, processor_vars >>

\* GetRemovalGOP for a removal range [start_timestamp, end_timestamp).
CallGetRemovalGOP(start_timestamp, end_timestamp, total_bytes_to_free) ==
  /\ range.buffers_ # <<>>
  /\ start_timestamp <= end_timestamp
  /\ LET removal == GetRemovalGOP(range, start_timestamp, end_timestamp,
                                  total_bytes_to_free)
     IN  range_result' = RangeResult("GetRemovalGOP", removal.result,
                                     removal.removal_end_timestamp)
  /\ UNCHANGED << range, split_range, processor_vars >>

CallDeleteGOPFromFront ==
  /\ range.buffers_ # <<>>
  /\ ~FirstGOPContainsNextBufferPosition(range)
  /\ KeyframeMapBegin(range.keyframe_map_) # <<>>
  /\ LET deleted == DeleteGOPFromFront(range)
     IN  /\ range' = deleted.this
         /\ range_result' = RangeResult("DeleteGOPFromFront", deleted.result,
                                        deleted.deleted_buffers)
  /\ UNCHANGED << split_range, processor_vars >>

CallDeleteGOPFromBack ==
  /\ range.buffers_ # <<>>
  /\ ~LastGOPContainsNextBufferPosition(range)
  /\ Cardinality(DOMAIN range.keyframe_map_) > 0
  /\ LET deleted == DeleteGOPFromBack(range)
     IN  /\ range' = deleted.this
         /\ range_result' = RangeResult("DeleteGOPFromBack", deleted.result,
                                        deleted.deleted_buffers)
  /\ UNCHANGED << split_range, processor_vars >>

RangeNext ==
  \/ \E new_buffers \in BufferQueues(MaxQueue) :
       \E new_buffers_group_start_timestamp \in
            {kNoDecodeTimestamp} \cup RangeTimestamps :
         CallAppendBuffersToEnd(new_buffers, new_buffers_group_start_timestamp)
  \/ \E transfer_current_position \in BOOLEAN :
       CallAppendRangeToEnd(transfer_current_position)
  \/ \E timestamp \in RangeTimestamps : CallSeek(timestamp)
  \/ CallGetNextBuffer
  \/ \E timestamp \in RangeTimestamps : CallSplitRange(timestamp)
  \/ DeleteSplitRange
  \/ \E timestamp \in RangeTimestamps :
       \E has_removed_buffers \in BOOLEAN, is_exclusive \in BOOLEAN :
         CallTruncateAt(timestamp, has_removed_buffers, is_exclusive)
  \/ \E start_timestamp \in RangeTimestamps, end_timestamp \in RangeTimestamps :
       \E total_bytes_to_free \in 0..MaxBytesToFree :
         CallGetRemovalGOP(start_timestamp, end_timestamp, total_bytes_to_free)
  \/ CallDeleteGOPFromFront
  \/ CallDeleteGOPFromBack

RangeSpec == RangeInit /\ [][RangeNext]_vars

\* --------------------------------------------- queries on a buffered range
\* Buffers of the ranges the queries are made on: the presentation timestamp
\* is the decode timestamp or later, the duration is missing (0) or positive.
QueryBuffers ==
  { SizedBuffer(d + lag, d, dur, k, IF k THEN KeyFrameSize ELSE DeltaFrameSize) :
      d \in 0..MaxQueryTs, lag \in 0..1, dur \in 0..MaxQueryDuration,
      k \in BOOLEAN }

\* Buffer queues of at most n such buffers, in nondecreasing decode order.
QueryQueues(n) ==
  { q \in UNION { [1..k -> QueryBuffers] : k \in 1..n } :
      \A i \in 1..(Len(q) - 1) : q[i].dts <= q[i + 1].dts }

\* Timestamps the owning stream queries a range with.
QueryTimestamps == 0..(MaxQueryTs + MaxQueryDuration + 1)

\* What the owning stream's out parameter holds before GetBuffersInRange.
QueryOutQueues == { <<>>, << SizedBuffer(0, 0, 1, TRUE, KeyFrameSize) >> }

QueryInit ==
  /\ FrameProcessor
  /\ sequence_mode_ = FALSE
  /\ pending_notify_all_group_start_ = FALSE
  /\ \E new_buffers \in QueryQueues(MaxQueue) :
       /\ new_buffers[1].key
       /\ \E range_start_decode_time \in
               {kNoDecodeTimestamp} \cup 0..new_buffers[1].dts :
            range = SourceBufferRangeByPts(new_buffers, range_start_decode_time)
  /\ split_range = <<>>
  /\ range_result = RangeResult("SourceBufferRangeByPts", "void", <<>>)

CallNextKeyframeTimestamp(timestamp) ==
  /\ DOMAIN range.keyframe_map_ # {}
  /\ range_result' = RangeResult("NextKeyframeTimestamp",
                                 NextKeyframeTimestamp(range, timestamp), <<>>)
  /\ UNCHANGED << range, split_range, processor_vars >>

CallKeyframeBeforeTimestamp(timestamp) ==
  /\ DOMAIN range.keyframe_map_ # {}
  /\ range_result' = RangeResult("KeyframeBeforeTimestamp",
                                 KeyframeBeforeTimestamp(range, timestamp), <<>>)
  /\ UNCHANGED << range, split_range, processor_vars >>

CallGetBuffersInRange(start, end, buffers) ==
  /\ DOMAIN range.keyframe_map_ # {}
  /\ LET got == GetBuffersInRange(range, start, end, buffers)
     IN  range_result' =
           RangeResult("GetBuffersInRange",
                       IF got.result THEN "true" ELSE "false", got.buffers)
  /\ UNCHANGED << range, split_range, processor_vars >>

QueryNext ==
  \/ \E timestamp \in QueryTimestamps : CallNextKeyframeTimestamp(timestamp)
  \/ \E timestamp \in QueryTimestamps : CallKeyframeBeforeTimestamp(timestamp)
  \/ \E start \in QueryTimestamps, end \in QueryTimestamps :
       \E buffers \in QueryOutQueues : CallGetBuffersInRange(start, end, buffers)

QuerySpec == QueryInit /\ [][QueryNext]_vars

\* ----------------------------------------------------------------- claims
Registered == TrackIds \cap DOMAIN track_buffers_

NonDecreasing(ts) == \A i \in 1..Len(ts) - 1 : ts[i] <= ts[i + 1]

\* The step is a pass through the loop body of ProcessFrame.
FramePass == pc \in {"frames", "loop_top"} /\ loop_iterations' >= 1
             /\ (frames_total' = frames_total + 1 \/ pc = "loop_top")

\* C1 as stated: the frames a track's stream receives through Append, over
\* all calls, are in non-decreasing decode order.
C1_AllAppendsInDecodeOrder ==
  \A t \in TrackIds :
    (sink[t].before # kNoTimestamp /\ sink[t].appended # <<>>)
      => sink[t].before <= sink[t].appended[1]

\* C1: the frames of each single Append to a track's stream are in
\* non-decreasing decode order, and the first frame of an Append decodes
\* before the last frame of the stream's previous Append only if a coded
\* frame group start was signalled to that stream between the two Appends.
C1_AppendsInDecodeOrderWithinGroup ==
  \A t \in TrackIds :
    /\ NonDecreasing(sink[t].appended)
    /\ (sink[t].before # kNoTimestamp /\ sink[t].appended # <<>>
          /\ sink[t].before > sink[t].appended[1])
         => sink[t].notified_between

C1_Witness ==
  \E t \in TrackIds :
    /\ Len(sink[t].appended) >= 2
    /\ sink[t].before # kNoTimestamp
    /\ sink[t].before > sink[t].appended[1]
    /\ sink[t].notified_between

\* C2 as stated: the needs-random-access-point flag of a track is cleared
\* only by a pass that accepts (enqueues) a key frame of that track.
C2_ClearedOnlyByAcceptance ==
  [][ \A t \in Registered :
        (track_buffers_[t].needs_random_access_point_
           /\ ~track_buffers_'[t].needs_random_access_point_)
          => /\ FramePass
             /\ outcome'.how = "enqueued"
             /\ outcome'.track = t
             /\ outcome'.key
    ]_vars

\* C2: while the needs-random-access-point flag of a track is set, a non-key
\* frame of the track is never enqueued and leaves the flag set; a frame
\* dropped by the gate is a non-key frame, leaves the flag set and the
\* staged frames alone, calls no sink and lets ProcessFrames go on without
\* an error; and the flag is cleared only by a pass for a key frame of that
\* track inside the append window, which enqueues that frame unless the
\* flush of the frames staged before it fails, in which case ProcessFrames
\* returns false with the flag cleared and the frame not enqueued.
C2_KeyframeGating ==
  [][ \A t \in Registered :
        LET tb == track_buffers_[t]
            tb2 == track_buffers_'[t]
        IN
        /\ (tb.needs_random_access_point_ /\ ~tb2.needs_random_access_point_)
             => /\ FramePass
                /\ outcome'.track = t
                /\ outcome'.key
                /\ \/ /\ outcome'.how = "enqueued"
                      /\ tb2.processed_frames_ # <<>>
                      /\ LET b == tb2.processed_frames_[Len(tb2.processed_frames_)]
                         IN /\ b.key
                            /\ b.pts >= append_window_start
                            /\ b.pts + b.dur <= append_window_end
                      /\ call_log'.enqueued = call_log.enqueued + 1
                   \/ /\ outcome'.how = "fail_flush"
                      /\ result' = "false"
                      /\ call_log'.enqueued = call_log.enqueued
                      /\ \E i \in 1..Len(events') :
                           events'[i].op = "Append" /\ ~events'[i].ok
        /\ (FramePass /\ outcome'.track = t /\ ~outcome'.key
              /\ tb.needs_random_access_point_)
             => /\ outcome'.how # "enqueued"
                /\ call_log'.enqueued = call_log.enqueued
                /\ tb2.needs_random_access_point_
        /\ (FramePass /\ outcome'.track = t /\ outcome'.how = "drop_rap")
             => /\ ~outcome'.key
                /\ tb2.needs_random_access_point_
                /\ \A u \in Registered :
                     track_buffers_'[u].processed_frames_
                       = track_buffers_[u].processed_frames_
                /\ events' = <<>>
                /\ pc' = "frames"
                /\ result' = result
    ]_vars

C2_Witness ==
  /\ outcome.how = "drop_rap"
  /\ call_log.enqueued >= 1
  /\ pc = "frames"

\* C3: ProcessFrame goes through its loop body at most twice for one frame:
\* a frame that restarted after a discontinuity is not restarted again.
C3_AtMostOneRestart ==
  /\ loop_iterations <= 2
  /\ pc = "loop_top" => loop_iterations = 1

C3_Witness ==
  /\ loop_iterations = 2
  /\ sequence_mode_
  /\ outcome.how = "enqueued"

\* The staging queues of all tracks are empty.
NothingStaged ==
  \A t \in Registered : track_buffers_[t].processed_frames_ = <<>>

IsGroupStart(e) == e.op = "OnStartOfCodedFrameGroup"

\* C4: whenever a step signals a coded frame group start to a stream, the
\* frames staged before the step, in every track, were passed to their
\* streams' Append earlier in the step; the start is signalled to all tracks
\* when a notify-all was pending and to the frame's track alone otherwise,
\* with the decode timestamp of the frame; and after the step the frame that
\* triggered the signal is the only staged frame, so it is appended only
\* after the signal.
C4_FlushBeforeSignal ==
  [][ \A i \in 1..Len(events') :
        IsGroupStart(events'[i]) =>
          /\ FramePass
          /\ outcome'.how = "enqueued"
          /\ \A t \in Registered :
               track_buffers_[t].processed_frames_ # <<>> =>
                 \E j \in 1..(i - 1) :
                   /\ events'[j].op = "Append"
                   /\ events'[j].track = t
                   /\ events'[j].frames = track_buffers_[t].processed_frames_
          /\ \A j \in 1..Len(events') :
               events'[j].op = "Append" =>
                 /\ j < i
                 /\ events'[j].frames
                      = track_buffers_[events'[j].track].processed_frames_
          /\ { events'[j].track : j \in { k \in 1..Len(events') :
                                           IsGroupStart(events'[k]) } }
               = IF pending_notify_all_group_start_
                 THEN Registered ELSE {outcome'.track}
          /\ \A t \in Registered :
               Len(track_buffers_'[t].processed_frames_)
                 = IF t = outcome'.track THEN 1 ELSE 0
          /\ events'[i].ts
               = track_buffers_'[outcome'.track].processed_frames_[1].dts
    ]_vars

C4_Witness ==
  /\ \E i, j \in 1..Len(events) :
       /\ i < j
       /\ events[i].op = "Append"
       /\ IsGroupStart(events[j])
  /\ Cardinality({ j \in 1..Len(events) : IsGroupStart(events[j]) }) = 1
  /\ outcome.how = "enqueued"

\* C5 as stated: ProcessFrames returns false only because the queues cannot
\* be merged into decode order, a frame lacks a PTS, a DTS or a duration or
\* has a negative duration, its track is not registered, its type differs
\* from its track's stream, or a flush of processed frames fails.
C5_FailureCauses ==
  (pc = "idle" /\ result = "false") =>
    outcome.how \in { "fail_merge", "fail_no_pts", "fail_no_dts",
                      "fail_no_duration", "fail_negative_duration",
                      "fail_unknown_track", "fail_type_mismatch",
                      "fail_flush", "fail_final_flush" }

\* C6 as stated: when ProcessFrames returns false no frame of the batch has
\* been appended to any stream.
C6_NothingAppendedOnFailure ==
  (pc = "idle" /\ result = "false") => call_log.appended = 0

\* C6: when ProcessFrames returns false because processing a frame failed,
\* the frames of the batch enqueued before that frame have all been passed
\* to Append (the processed frames are flushed before the return), nothing
\* is left staged, and the duration update callback has not been run.
C6_AcceptedFramesFlushedOnFailure ==
  (pc = "idle" /\ result = "false") =>
    /\ call_log.appended = call_log.enqueued
    /\ NothingStaged
    /\ call_log.update_duration = <<>>

C6_Witness ==
  /\ pc = "idle"
  /\ result = "false"
  /\ outcome.how \in {"fail_no_pts", "fail_unknown_track", "fail_negative_dts"}
  /\ call_log.appended >= 1
  /\ \E i \in 1..Len(events) : events[i].op = "Append"

\* C7: a ProcessFrames call that returns true has run the duration update
\* callback exactly once, as its last call, after every Append of the call,
\* with the group end timestamp as the last frame left it; a call that
\* returns false, and a call that is still running, has not run it.
C7_DurationUpdatedOncePerSuccess ==
  /\ (pc = "idle" /\ result = "true") =>
       /\ call_log.update_duration = <<group_end_timestamp_>>
       /\ events # <<>>
       /\ events[Len(events)].op = "UpdateDuration"
       /\ events[Len(events)].ts = group_end_timestamp_
       /\ \A i \in 1..Len(events) - 1 : events[i].op = "Append"
       /\ NothingStaged
       /\ call_log.appended = call_log.enqueued
  /\ (pc # "idle" \/ result = "false") =>
       /\ call_log.update_duration = <<>>
       /\ \A i \in 1..Len(events) : events[i].op # "UpdateDuration"

C7_Witness ==
  /\ pc = "idle"
  /\ result = "true"
  /\ Len(events) >= 2
  /\ events[1].op = "Append"
  /\ group_end_timestamp_ > 0
  /\ call_log.update_duration = <<group_end_timestamp_>>

\* The pass begins with sequence mode on and a group start timestamp set.
GroupStartPending ==
  sequence_mode_ /\ group_start_timestamp_ # kNoTimestamp

\* Outcomes of a pass that returned before the track buffer was looked at.
SanityFailures ==
  {"fail_no_pts", "fail_no_dts", "fail_no_duration", "fail_negative_duration"}

C9_DiscontinuityIff ==
  [][ (FramePass
         /\ outcome'.how \notin SanityFailures
                                  \cup {"fail_unknown_track", "fail_type_mismatch"})
       => LET tb == track_buffers_[outcome'.track]
              delta == outcome'.dts - tb.last_decode_timestamp_
          IN
          /\ (outcome'.how = "continue")
               <=> /\ tb.last_decode_timestamp_ # kNoTimestamp
                   /\ (delta < 0 \/ delta > 2 * tb.last_frame_duration_)
          /\ outcome'.how = "continue" =>
               \A t \in Registered :
                 /\ track_buffers_'[t].last_decode_timestamp_ = kNoTimestamp
                 /\ track_buffers_'[t].needs_random_access_point_
          /\ outcome'.how # "continue" =>
               \A t \in Registered \ {outcome'.track} :
                 track_buffers_'[t].last_decode_timestamp_
                   = track_buffers_[t].last_decode_timestamp_
    ]_vars

C9_Witness ==
  \E t \in Registered :
    LET q == track_buffers_[t].processed_frames_
    IN /\ Len(q) >= 2
       /\ q[1].dur > 0
       /\ q[1].discard_front = 0 /\ q[1].discard_back = 0
       /\ q[2].dts - q[1].dts = 2 * q[1].dur
       /\ outcome.how = "enqueued"
       /\ outcome.track = t

\* C10: a pass that begins in sequence mode with a group start timestamp set
\* and gets past the sanity checks sets the timestamp offset to the group
\* start minus the frame's original PTS, so that the frame's offset-applied
\* PTS is the former group start; it sets needs-random-access-point on all
\* tracks (the frame's own track clears it again if the frame goes on to be
\* enqueued) and leaves the group start unset unless a discontinuity reset
\* of the same pass sets it again.  No other step changes the timestamp
\* offset, so later frames are processed with the same offset.
C10_SequenceModeOffset ==
  [][ IF FramePass /\ GroupStartPending /\ outcome'.how \notin SanityFailures
      THEN /\ timestamp_offset' = group_start_timestamp_ - entry'.pts
           /\ outcome'.pts = group_start_timestamp_
           /\ outcome'.how # "continue" => group_start_timestamp_' = kNoTimestamp
           /\ \A t \in Registered :
                \/ track_buffers_'[t].needs_random_access_point_
                \/ /\ t = outcome'.track
                   /\ outcome'.key
                   /\ outcome'.how \in {"enqueued", "fail_flush"}
      ELSE timestamp_offset' = timestamp_offset
    ]_vars

C10_Witness ==
  /\ sequence_mode_
  /\ entry.group_start_timestamp_ # kNoTimestamp
  /\ outcome.how = "enqueued"
  /\ loop_iterations = 1
  /\ timestamp_offset = entry.group_start_timestamp_ - entry.pts
  /\ timestamp_offset # entry.timestamp_offset
  /\ group_start_timestamp_ = kNoTimestamp
  /\ \E t \in Registered : track_buffers_[t].last_decode_timestamp_ # kNoTimestamp
                           /\ track_buffers_[t].needs_random_access_point_

\* The last call before ProcessFrames, if that is in progress, was op, and
\* no frame of that ProcessFrames has been taken up; with unused set, the
\* processor has not taken up a frame before.
FirstFrameAfter(op, unused) ==
  /\ last_call = op
  /\ unused => frames_total = 0

\* C11 as stated: when SetSequenceMode(true) was called on a processor that
\* has not processed a frame and ProcessFrames is called next, the first
\* pass over a first frame with a PTS above zero leaves the timestamp offset
\* unchanged at 0.
C11_OffsetStaysZero ==
  [][ (FramePass /\ FirstFrameAfter("SetSequenceMode", TRUE) /\ sequence_mode_
         /\ entry'.pts > 0)
        => timestamp_offset' = 0 ]_vars

\* C11: when SetSequenceMode(true) was called on a processor that has not
\* processed a frame, the group start timestamp is set to the group end
\* timestamp 0 and the timestamp offset is 0 when ProcessFrames is called
\* next; its first frame, if it gets past the sanity checks, sets the
\* timestamp offset to 0 minus its PTS, so that its offset-applied PTS is 0,
\* and leaves the offset at 0 if it fails the sanity checks.
C11_FirstAppendInSequenceMode ==
  /\ []((FirstFrameAfter("SetSequenceMode", TRUE) /\ sequence_mode_) =>
          /\ group_end_timestamp_ = 0
          /\ group_start_timestamp_ = group_end_timestamp_
          /\ timestamp_offset = 0)
  /\ [][ (FramePass /\ FirstFrameAfter("SetSequenceMode", TRUE)
           /\ sequence_mode_) =>
           IF outcome'.how \in SanityFailures
           THEN timestamp_offset' = 0
           ELSE /\ timestamp_offset' = 0 - entry'.pts
                /\ outcome'.pts = 0
     ]_vars

C11_Witness ==
  /\ sequence_mode_
  /\ entry.group_start_timestamp_ = 0
  /\ frames_total = 1
  /\ frames_processed = 1
  /\ entry.pts > 0
  /\ entry.timestamp_offset = 0
  /\ loop_iterations = 1
  /\ outcome.how = "enqueued"
  /\ outcome.pts = 0
  /\ timestamp_offset = 0 - entry.pts

\* A step that is a call of Reset() (or, after one, a registration call that
\* changes nothing of the processor).
ResetStep ==
  /\ pc = "idle" /\ pc' = "idle"
  /\ last_call' = "Reset"
  /\ DOMAIN track_buffers_' = DOMAIN track_buffers_
  /\ sample_duration_' = sample_duration_

\* C12: in sequence mode Reset() sets the group start timestamp to the group
\* end timestamp and leaves the group end timestamp as it is; when
\* ProcessFrames is called next, its first frame, if it passes the sanity
\* checks, sets the timestamp offset to that group end timestamp minus the
\* frame's PTS, so that the frame's offset-applied PTS is the group end
\* timestamp that held before the Reset.
C12_OffsetAfterReset ==
  /\ [][ (ResetStep /\ sequence_mode_) =>
           /\ group_end_timestamp_' = group_end_timestamp_
           /\ group_start_timestamp_' = group_end_timestamp_
           /\ timestamp_offset' = timestamp_offset
     ]_vars
  /\ []((FirstFrameAfter("Reset", FALSE) /\ sequence_mode_) =>
          group_start_timestamp_ = group_end_timestamp_)
  /\ [][ (FramePass /\ FirstFrameAfter("Reset", FALSE) /\ sequence_mode_
           /\ outcome'.how \notin SanityFailures) =>
           /\ timestamp_offset' = group_end_timestamp_ - entry'.pts
           /\ outcome'.pts = group_end_timestamp_
     ]_vars

C12_Witness ==
  /\ sequence_mode_
  /\ entry.after_reset
  /\ frames_total >= 2
  /\ frames_processed = 1
  /\ outcome.how = "enqueued"
  /\ entry.group_start_timestamp_ > 0
  /\ outcome.pts = entry.group_start_timestamp_
  /\ entry.pts # outcome.pts
  /\ timestamp_offset # entry.timestamp_offset
  /\ \E t \in Registered :
       /\ sink[t].appended # <<>>
       /\ track_buffers_[t].last_processed_decode_timestamp_ > 0

\* C13: Reset() unsets the last decode timestamp, last frame duration,
\* highest presentation timestamp and last keyframe presentation timestamp
\* of every track and sets its needs-random-access-point flag; it leaves
\* every track's last processed decode timestamp, staged frames, stream and
\* warning count, the sinks, the mode and the timestamp offset as they are
\* and calls no sink.  In segments mode it sets the pending
\* notify-all-group-start flag and leaves group start and group end
\* unchanged; in sequence mode it sets the group start to the group end and
\* leaves the group end and the pending flag unchanged.
C13_ResetEffects ==
  [][ ResetStep =>
        /\ \A t \in Registered :
             LET tb == track_buffers_[t]
                 tb2 == track_buffers_'[t]
             IN /\ tb2.last_decode_timestamp_ = kNoTimestamp
                /\ tb2.last_frame_duration_ = kNoTimestamp
                /\ tb2.highest_presentation_timestamp_ = kNoTimestamp
                /\ tb2.last_keyframe_presentation_timestamp_ = kNoTimestamp
                /\ tb2.needs_random_access_point_
                /\ tb2.last_processed_decode_timestamp_
                     = tb.last_processed_decode_timestamp_
                /\ tb2.processed_frames_ = tb.processed_frames_
                /\ tb2.stream_ = tb.stream_
                /\ tb2.num_keyframe_time_greater_than_dependant_warnings_
                     = tb.num_keyframe_time_greater_than_dependant_warnings_
        /\ sink' = sink
        /\ events' = <<>>
        /\ sequence_mode_' = sequence_mode_
        /\ timestamp_offset' = timestamp_offset
        /\ group_end_timestamp_' = group_end_timestamp_
        /\ IF sequence_mode_
           THEN /\ group_start_timestamp_' = group_end_timestamp_
                /\ pending_notify_all_group_start_'
                     = pending_notify_all_group_start_
           ELSE /\ group_start_timestamp_' = group_start_timestamp_
                /\ pending_notify_all_group_start_'
    ]_vars

C13_Witness ==
  /\ pc = "idle"
  /\ last_call = "Reset"
  /\ ~sequence_mode_
  /\ pending_notify_all_group_start_
  /\ Registered = TrackIds
  /\ \E t \in Registered :
       /\ track_buffers_[t].last_processed_decode_timestamp_ > 0
       /\ sink[t].appended # <<>>
  /\ \A t \in Registered :
       /\ track_buffers_[t].last_decode_timestamp_ = kNoTimestamp
       /\ track_buffers_[t].needs_random_access_point_

\* A pass that got as far as the discontinuity check of step 6.
ReachesDiscontinuityCheck(how) ==
  how \notin SanityFailures \cup {"fail_unknown_track", "fail_type_mismatch"}

\* One group start per registered track, in the order of the track map, all
\* with decode timestamp ts.
NotifyAllOnce(ts) ==
  [i \in 1..Len(MapOrder(track_buffers_)) |-> <<MapOrder(track_buffers_)[i], ts>>]

\* The only frame of the call in progress that was processed again after a
\* discontinuity is its first frame, with decode timestamp dts.
FirstFrameRestarted(dts) == call_log.restarts = << <<1, dts>> >>

\* Decode timestamps a frame can have with the timestamp offset applied.
OffsetDts == (0 - MaxTs - 1)..(2 * MaxTs + 1)

\* C14: in segments mode, (a) the first frame of a ProcessFrames call whose
\* DTS exceeds the last decode timestamp its track holds from the previous
\* call by more than twice the track's last frame duration is processed
\* again, with notify-all pending and nothing signalled yet; (b) when the
\* first frame is processed again after a discontinuity and is a key frame
\* that lies inside the append window with a DTS of at least 0, the pass
\* enqueues it and signals the start of a coded frame group exactly once to
\* the stream of each registered track, carrying the frame's DTS; (c) after
\* that no pass of the call that is not itself a discontinuity signals a
\* group start, so that the call has signalled exactly one group start per
\* track for as long as the first frame's is its only discontinuity.
C14_OneGroupStartPerDiscontinuity ==
  /\ [][ (FramePass /\ pc = "frames" /\ frames_processed = 0
           /\ ~sequence_mode_
           /\ ReachesDiscontinuityCheck(outcome'.how)
           /\ LET tb == track_buffers_[outcome'.track]
              IN /\ tb.last_decode_timestamp_ # kNoTimestamp
                 /\ outcome'.dts - tb.last_decode_timestamp_
                      > 2 * tb.last_frame_duration_) =>
           /\ outcome'.how = "continue"
           /\ pc' = "loop_top"
           /\ pending_notify_all_group_start_'
           /\ call_log'.restarts = << <<1, outcome'.dts>> >>
           /\ call_log'.group_starts = <<>>
     ]_vars
  /\ [][ (FramePass /\ pc = "loop_top" /\ FirstFrameRestarted(outcome.dts)
           /\ ~sequence_mode_
           /\ outcome'.key
           /\ outcome'.dts >= 0
           /\ outcome'.pts >= append_window_start
           /\ outcome'.pts + frame[1].dur <= append_window_end) =>
           /\ outcome'.how = "enqueued"
           /\ outcome'.dts = outcome.dts
           /\ GroupStartsSignalled(events') = NotifyAllOnce(outcome'.dts)
           /\ call_log'.group_starts = NotifyAllOnce(outcome'.dts)
           /\ ~pending_notify_all_group_start_'
     ]_vars
  /\ [][ (FramePass /\ ~sequence_mode_
           /\ \E dts \in OffsetDts :
                /\ FirstFrameRestarted(dts)
                /\ call_log.group_starts = NotifyAllOnce(dts)
           /\ outcome'.how # "continue") =>
           /\ GroupStartsSignalled(events') = <<>>
           /\ call_log'.group_starts = call_log.group_starts
     ]_vars

C14_Witness ==
  /\ ~sequence_mode_
  /\ pc = "frames"
  /\ Registered = TrackIds
  /\ frames_processed = 2
  /\ call_log.enqueued = 2
  /\ \E ts \in 1..MaxTs :
       /\ FirstFrameRestarted(ts)
       /\ call_log.group_starts = NotifyAllOnce(ts)
       /\ \E t \in Registered :
            /\ sink[t].appended # <<>>
            /\ sink[t].appended[Len(sink[t].appended)] < ts
            /\ Len(track_buffers_[t].processed_frames_) = 2
  /\ outcome.how = "enqueued"
  /\ events = <<>>

\* The frame a pass has just enqueued on the track buffer tb: the last
\* staged one.
Enqueued(tb) == tb.processed_frames_[Len(tb.processed_frames_)]

RECURSIVE FramesOf(_)
FramesOf(es) ==
  IF es = <<>> THEN <<>>
  ELSE (IF Head(es).op = "Append" THEN Head(es).frames ELSE <<>>)
       \o FramesOf(Tail(es))

AllKeyFrames(frames) == \A i \in 1..Len(frames) : frames[i].key

\* C16: every pass over an audio frame treats it as a key frame, however it
\* was marked: the pass does not drop it for want of a random access point,
\* and a frame that is processed again is one marked as key frame; every
\* audio frame that is staged or handed to a stream's Append is marked as key
\* frame; and whenever ProcessFrames can take up a frame, an audio frame not
\* marked as key frame is processed, with every return value of the streams,
\* exactly as the same frame marked as key frame is.
C16_AudioFramesAreKeyFrames ==
  /\ [][ (FramePass /\ entry'.type = AUDIO) =>
           /\ outcome'.key
           /\ outcome'.how # "drop_rap"
           /\ frame' # <<>> => frame'[1].key
     ]_vars
  /\ [](\A t \in Registered :
          track_buffers_[t].stream_.type = AUDIO =>
            AllKeyFrames(track_buffers_[t].processed_frames_))
  /\ [](\A i \in 1..Len(FramesOf(events)) :
          FramesOf(events)[i].type = AUDIO => FramesOf(events)[i].key)
  /\ [](pc = "frames" =>
          \A f \in {a \in AudioFrames : ~a.key},
             append_ok \in AppendResults(track_buffers_) :
            LoopBody(Processor, f, append_window_start, append_window_end,
                     append_ok)
              = LoopBody(Processor, [f EXCEPT !.key = TRUE],
                         append_window_start, append_window_end, append_ok))

C16_Witness ==
  /\ entry.type = AUDIO
  /\ ~entry.key
  /\ outcome.key
  /\ outcome.how = "enqueued"
  /\ events = <<>>
  /\ LET tb == track_buffers_[outcome.track]
     IN /\ tb.stream_.type = AUDIO
        /\ Len(tb.processed_frames_) = 2
        /\ AllKeyFrames(tb.processed_frames_)
        /\ ~tb.needs_random_access_point_

\* C17: a ProcessFrames call whose queues cannot be merged returns false
\* with no frame processed, no call made on a sink or on the duration update
\* or parse warning callback, and the mode, timestamp offset, group start and
\* group end timestamps, pending notify-all flag, preroll buffer, warning
\* count and every track buffer as they were.
C17_MergeFailureRejectsBatch ==
  [][ outcome'.how = "fail_merge" =>
        /\ result' = "false"
        /\ pc' = "idle"
        /\ frames_processed' = 0
        /\ frames_total' = frames_total
        /\ events' = <<>>
        /\ sink' = sink
        /\ call_log' = NewCallLog
        /\ timestamp_offset' = timestamp_offset
        /\ group_start_timestamp_' = group_start_timestamp_
        /\ group_end_timestamp_' = group_end_timestamp_
        /\ track_buffers_' = track_buffers_
        /\ sequence_mode_' = sequence_mode_
        /\ pending_notify_all_group_start_' = pending_notify_all_group_start_
        /\ audio_preroll_buffer_' = audio_preroll_buffer_
        /\ num_muxed_sequence_mode_warnings_'
             = num_muxed_sequence_mode_warnings_
    ]_vars

C17_Witness ==
  /\ outcome.how = "fail_merge"
  /\ result = "false"
  /\ pc = "idle"
  /\ sequence_mode_
  /\ Registered = TrackIds
  /\ num_muxed_sequence_mode_warnings_ = 0
  /\ group_start_timestamp_ # kNoTimestamp
  /\ \E t \in Registered :
       /\ track_buffers_[t].last_decode_timestamp_ # kNoTimestamp
       /\ sink[t].appended # <<>>

\* The processor fp with the warning counts of its track buffers at zero.
Unwarned(fp) ==
  [fp EXCEPT !.track_buffers_ =
     [id \in DOMAIN @ |->
        [@[id] EXCEPT !.num_keyframe_time_greater_than_dependant_warnings_ = 0]]]

\* The calls es but for the runs of the parse warning callback.
NoWarnings(es) == SelectSeq(es, LAMBDA e : e.op # "ParseWarning")

\* The frame staged last on track t depends on a key frame that is presented
\* later than it: the condition of kKeyframeTimeGreaterThanDependant.
DependantBeforeKeyframe(t) ==
  LET tb == track_buffers_[t]
  IN /\ tb.processed_frames_ # <<>>
     /\ ~Enqueued(tb).key
     /\ Enqueued(tb).pts < tb.last_keyframe_presentation_timestamp_

\* C18: the parse warning callback has been run at most once with
\* kMuxedSequenceMode, and at most once with kKeyframeTimeGreaterThanDependant
\* for each track buffer, as often as the processor and the track buffer have
\* counted the warning; a ProcessFrames call is entered with the processor,
\* its track buffers and its sinks as they were, whatever has been counted;
\* and whenever a track buffer has counted its warning, a pass over any frame
\* has the outcome, the effect on the processor and the sink calls it would
\* have had with nothing counted, the count and the run of the callback
\* aside.
C18_WarningsBounded ==
  /\ [](/\ parse_warnings.kMuxedSequenceMode <= kMaxMuxedSequenceModeWarnings
        /\ parse_warnings.kMuxedSequenceMode = num_muxed_sequence_mode_warnings_
        /\ \A t \in Registered :
             /\ parse_warnings.kKeyframeTimeGreaterThanDependant[t]
                  <= kMaxNumKeyframeTimeGreaterThanDependantWarnings
             /\ parse_warnings.kKeyframeTimeGreaterThanDependant[t]
                  = track_buffers_[t]
                      .num_keyframe_time_greater_than_dependant_warnings_)
  /\ [][ (pc = "idle" /\ pc' = "frames") =>
           /\ Processor' = Processor
           /\ sink' = sink
           /\ NoWarnings(events') = <<>>
     ]_vars
  /\ []((/\ pc = "frames"
         /\ \E t \in Registered :
              track_buffers_[t]
                .num_keyframe_time_greater_than_dependant_warnings_ > 0) =>
          \A f \in FrameInputs, append_ok \in AppendResults(track_buffers_) :
            LET counted == LoopBody(Processor, f, append_window_start,
                                    append_window_end, append_ok)
                fresh == LoopBody(Unwarned(Processor), f, append_window_start,
                                  append_window_end, append_ok)
            IN /\ counted.outcome = fresh.outcome
               /\ Unwarned(counted.fp) = Unwarned(fresh.fp)
               /\ NoWarnings(counted.events) = NoWarnings(fresh.events))

C18_Witness ==
  /\ outcome.how = "enqueued"
  /\ events = <<>>
  /\ DependantBeforeKeyframe(outcome.track)
  /\ LET tb == track_buffers_[outcome.track]
     IN /\ Len(tb.processed_frames_) = 3
        /\ ~tb.processed_frames_[2].key
        /\ tb.processed_frames_[2].pts
             < tb.last_keyframe_presentation_timestamp_
        /\ tb.num_keyframe_time_greater_than_dependant_warnings_
             = kMaxNumKeyframeTimeGreaterThanDependantWarnings
  /\ parse_warnings.kKeyframeTimeGreaterThanDependant[outcome.track] = 1

\* ------------------------------------------------------------------ C19
\* The keyframe index of a range agrees with its buffers.
KeyframeIndexConsistent(r) ==
  /\ \A dts \in DOMAIN r.keyframe_map_ :
       LET i == r.keyframe_map_[dts] - r.keyframe_map_index_base_
       IN  /\ 0 <= i
           /\ i < Len(r.buffers_)
           /\ BufferAt(r, i).key
           /\ BufferAt(r, i).dts = dts
  /\ \A i \in 0..(Len(r.buffers_) - 1) :
       BufferAt(r, i).key => BufferAt(r, i).dts \in DOMAIN r.keyframe_map_
  /\ r.buffers_ # <<>> =>
       /\ DOMAIN r.keyframe_map_ # {}
       /\ BufferAt(r, 0).key

\* C19: after construction and any sequence of AppendBuffersToEnd,
\* AppendRangeToEnd, SplitRange, TruncateAt, DeleteGOPFromFront and
\* DeleteGOPFromBack, every entry (dts -> i) of the keyframe index of a range
\* has 0 <= i - keyframe_map_index_base_ < number of buffers, the buffer at
\* that position is a key frame with decode timestamp dts, every key frame
\* of the range has an entry for its decode timestamp, and a range that holds
\* buffers has a non-empty index and a key frame as first buffer.  This holds
\* of the range the calls are made on and of the range SplitRange returned.
C19_KeyframeIndexConsistency ==
  /\ KeyframeIndexConsistent(range)
  /\ split_range # <<>> => KeyframeIndexConsistent(split_range[1])

\* A GOP has been deleted from the front of a range whose index is no longer
\* based at 0, and the range still holds two key frames with the same decode
\* timestamp, of which only the first has its position in the index.
C19_Witness ==
  /\ range_result.call = "DeleteGOPFromFront"
  /\ range.keyframe_map_index_base_ > 0
  /\ \E i \in 0..(Len(range.buffers_) - 1) :
       \E j \in (i + 1)..(Len(range.buffers_) - 1) :
         /\ BufferAt(range, i).key
         /\ BufferAt(range, j).key
         /\ BufferAt(range, i).dts = BufferAt(range, j).dts
         /\ range.keyframe_map_[BufferAt(range, i).dts]
              - range.keyframe_map_index_base_ = i


\* ------------------------------------------------------------------ C20
RECURSIVE SumDataSize(_)
\* The sum of data_size() over a buffer queue.
SumDataSize(buffers) ==
  IF buffers = <<>>
    THEN 0
    ELSE buffers[1].data_size + SumDataSize(Tail(buffers))

\* C20: after construction and any sequence of AppendBuffersToEnd,
\* AppendRangeToEnd, SplitRange, TruncateAt, DeleteGOPFromFront and
\* DeleteGOPFromBack, size_in_bytes_ of a range is the sum of data_size over
\* the buffers the range holds, and a DeleteGOPFromFront or DeleteGOPFromBack
\* call returns the sum of data_size over the buffers it put in
\* deleted_buffers.
C20_ByteAccounting ==
  /\ range.size_in_bytes_ = SumDataSize(range.buffers_)
  /\ split_range # <<>> =>
       split_range[1].size_in_bytes_ = SumDataSize(split_range[1].buffers_)
  /\ range_result.call \in {"DeleteGOPFromFront", "DeleteGOPFromBack"} =>
       range_result.result = SumDataSize(range_result.out)

\* DeleteGOPFromBack has deleted a key frame and a frame that depends on it
\* from a range that was split before and still holds buffers.
C20_Witness ==
  /\ range_result.call = "DeleteGOPFromBack"
  /\ Len(range_result.out) = 2
  /\ range_result.result = KeyFrameSize + DeltaFrameSize
  /\ range.size_in_bytes_ > 0
  /\ split_range # <<>>


\* ------------------------------------------------------------------ C21
\* The positions of the key frames of a range with a decode timestamp at or
\* after a timestamp.
KeyFramesAtOrAfter(r, timestamp) ==
  { i \in 0..(Len(r.buffers_) - 1) :
      BufferAt(r, i).key /\ BufferAt(r, i).dts >= timestamp }

\* What SplitRange(timestamp) did in a step: without a key frame at or after
\* the timestamp no range is returned and the range is as before; otherwise
\* the range returned holds the first such key frame and all later buffers,
\* this range keeps the buffers before it, and this range's buffers followed
\* by the new range's are the buffers before the call.
SplitRangeEffect(timestamp) ==
  IF KeyFramesAtOrAfter(range, timestamp) = {}
    THEN /\ range' = range
         /\ split_range' = <<>>
         /\ range_result'.result = "NULL"
    ELSE LET first == MinOf(KeyFramesAtOrAfter(range, timestamp))
         IN  /\ split_range' # <<>>
             /\ range_result'.result = "range"
             /\ split_range'[1].buffers_ # <<>>
             /\ split_range'[1].buffers_[1] = BufferAt(range, first)
             /\ split_range'[1].buffers_ =
                  SubSeq(range.buffers_, first + 1, Len(range.buffers_))
             /\ range'.buffers_ = SubSeq(range.buffers_, 1, first)
             /\ range'.buffers_ \o split_range'[1].buffers_ = range.buffers_

\* C21 as stated: SplitRange(t) behaves as SplitRangeEffect says and, when it
\* returns a range, both ranges hold buffers.
C21_SplitLeavesBothNonEmpty ==
  [][\A timestamp \in RangeTimestamps :
       range_result'.call = "SplitRange" /\ CallSplitRange(timestamp) =>
         /\ SplitRangeEffect(timestamp)
         /\ split_range' # <<>> =>
              range'.buffers_ # <<>> /\ split_range'[1].buffers_ # <<>>]_vars

\* C21 (amended): SplitRange(t) returns no range and leaves this range as it
\* was when no key frame has a decode timestamp >= t; otherwise it returns a
\* new range that begins with the first key frame whose decode timestamp is
\* >= t and holds that frame and all later frames, this range keeps exactly
\* the frames before that key frame, the new range is not empty, this range
\* is empty exactly when that key frame was its first buffer, and this
\* range's frames followed by the new range's are the frames before the call.
C21_SplitRangePartition ==
  [][\A timestamp \in RangeTimestamps :
       range_result'.call = "SplitRange" /\ CallSplitRange(timestamp) =>
         /\ SplitRangeEffect(timestamp)
         /\ split_range' # <<>> =>
              /\ split_range'[1].buffers_ # <<>>
              /\ range'.buffers_ = <<>> <=>
                   MinOf(KeyFramesAtOrAfter(range, timestamp)) = 0]_vars

\* SplitRange has returned a range that starts at a key frame after frames
\* this range keeps, the last of which depends on an earlier key frame.
C21_Witness ==
  /\ range_result.call = "SplitRange"
  /\ range_result.result = "range"
  /\ split_range # <<>>
  /\ Len(range.buffers_) >= 2
  /\ ~range.buffers_[Len(range.buffers_)].key
  /\ Len(split_range[1].buffers_) >= 2


\* ------------------------------------------------------------------ C22
\* SplitRange(timestamp) of a range returns a range that can be appended to
\* the end of what is left of the range.
SplitCanBeMerged(r, timestamp) ==
  LET split == SplitRange(r, timestamp)
  IN  /\ split.split_range # <<>>
      /\ split.this.buffers_ # <<>>
      /\ CanAppendRangeToEnd(split.this, split.split_range[1])

\* The range after SplitRange(timestamp) and AppendRangeToEnd of the range
\* returned, with transfer_current_position.
SplitThenMerged(r, timestamp) ==
  LET split == SplitRange(r, timestamp)
  IN  AppendRangeToEnd(split.this, split.split_range[1], TRUE)

\* C22: if SplitRange(t) returns a range R and R can be appended to the end
\* of this range, then AppendRangeToEnd(R, true) yields a range equal to the
\* range before the split frame for frame, with the same keyframe index (same
\* positions), the same byte size and the same next buffer position.  This
\* holds of every range the calls can produce and every timestamp.
C22_SplitMergeInverse ==
  range.buffers_ # <<>> =>
    \A timestamp \in RangeTimestamps :
      SplitCanBeMerged(range, timestamp) =>
        LET merged == SplitThenMerged(range, timestamp)
        IN  /\ merged.buffers_ = range.buffers_
            /\ merged.keyframe_map_ = range.keyframe_map_
            /\ merged.keyframe_map_index_base_ = range.keyframe_map_index_base_
            /\ merged.size_in_bytes_ = range.size_in_bytes_
            /\ merged.next_buffer_index_ = range.next_buffer_index_

\* A range whose index is no longer based at 0, with the next buffer position
\* inside the part that a split at a later key frame hands to the new range
\* (from where the merge takes it back), and with two key frames at that
\* decode timestamp.
C22_Witness ==
  /\ range.buffers_ # <<>>
  /\ range.keyframe_map_index_base_ > 0
  /\ \E timestamp \in RangeTimestamps :
       /\ SplitCanBeMerged(range, timestamp)
       /\ SplitRange(range, timestamp).split_range[1].next_buffer_index_ > 0
       /\ Cardinality(KeyFramesAtOrAfter(range, timestamp)) >= 2
       /\ SplitThenMerged(range, timestamp).next_buffer_index_
            = range.next_buffer_index_


\* ------------------------------------------------------------------ C23
\* The decode timestamps at or before a timestamp of the key frames of a range.
KeyFrameTimesAtOrBefore(r, timestamp) ==
  { BufferAt(r, i).dts : i \in { j \in 0..(Len(r.buffers_) - 1) :
      BufferAt(r, j).key /\ BufferAt(r, j).dts <= timestamp } }

\* The next buffer position of a range is the position of one of its buffers.
CursorOnBuffer(r) ==
  r.next_buffer_index_ >= 0 /\ r.next_buffer_index_ < Len(r.buffers_)

\* C23 as stated: for every timestamp t with CanSeekTo(t), Seek(t) leaves the
\* cursor at a valid position, on a key frame whose decode timestamp is the
\* greatest decode timestamp <= t of a key frame.
C23_SeekAtOrBefore ==
  [][\A timestamp \in RangeTimestamps :
       range_result'.call = "Seek" /\ CallSeek(timestamp) =>
         /\ CursorOnBuffer(range')
         /\ BufferAt(range', range'.next_buffer_index_).key
         /\ BufferAt(range', range'.next_buffer_index_).dts <= timestamp
         /\ KeyFrameTimesAtOrBefore(range, timestamp) # {}
         /\ BufferAt(range', range'.next_buffer_index_).dts =
              MaxOf(KeyFrameTimesAtOrBefore(range, timestamp))]_vars

\* C23 (amended): for every timestamp t with CanSeekTo(t), Seek(t) leaves the
\* cursor at a valid position of the range, on a key frame: one whose decode
\* timestamp is the greatest decode timestamp <= t of a key frame when a key
\* frame is at or before t, and the first buffer of the range when t is
\* before every key frame (t in the fudge room before the range start, or
\* in the gap between the range start and the first buffer).
C23_SeekKeyFrame ==
  [][\A timestamp \in RangeTimestamps :
       range_result'.call = "Seek" /\ CallSeek(timestamp) =>
         /\ CursorOnBuffer(range')
         /\ BufferAt(range', range'.next_buffer_index_).key
         /\ IF KeyFrameTimesAtOrBefore(range, timestamp) # {}
              THEN BufferAt(range', range'.next_buffer_index_).dts =
                     MaxOf(KeyFrameTimesAtOrBefore(range, timestamp))
              ELSE range'.next_buffer_index_ = 0]_vars

\* Seek has put the cursor on a key frame that is neither the first nor the
\* last of the range and that a frame depends on.
C23_Witness ==
  /\ range_result.call = "Seek"
  /\ range.next_buffer_index_ > 0
  /\ range.next_buffer_index_ + 1 < Len(range.buffers_)
  /\ ~BufferAt(range, range.next_buffer_index_ + 1).key
  /\ KeyFramesAtOrAfter(range,
        BufferAt(range, range.next_buffer_index_).dts + 1) # {}


\* ------------------------------------------------------------------ C24
\* TruncateAt(timestamp, removed, is_exclusive) is to remove this buffer.
Truncated(buffer, timestamp, is_exclusive) ==
  IF is_exclusive THEN buffer.dts > timestamp ELSE buffer.dts >= timestamp

\* The buffers of a range that TruncateAt is to keep and to remove.
BuffersKept(r, timestamp, is_exclusive) ==
  SelectSeq(r.buffers_, LAMBDA b : ~Truncated(b, timestamp, is_exclusive))

BuffersTruncated(r, timestamp, is_exclusive) ==
  SelectSeq(r.buffers_, LAMBDA b : Truncated(b, timestamp, is_exclusive))

\* The cursor of a range is on a buffer that TruncateAt is to remove.
CursorOnTruncated(r, timestamp, is_exclusive) ==
  /\ CursorOnBuffer(r)
  /\ Truncated(BufferAt(r, r.next_buffer_index_), timestamp, is_exclusive)

\* The cursor of a range is one past its last buffer.
CursorPastEnd(r) == r.next_buffer_index_ >= Len(r.buffers_)

\* TruncateAt removes exactly the buffers at (after) the timestamp and
\* returns true iff the range is then empty.
TruncateAtRemoves(timestamp, is_exclusive) ==
  /\ range'.buffers_ = BuffersKept(range, timestamp, is_exclusive)
  /\ range_result'.result = "true" <=> range'.buffers_ = <<>>

\* C24 as stated: TruncateAt(t, removed, is_exclusive) removes exactly the
\* frames with decode timestamp >= t (> t when is_exclusive) and returns true
\* iff the range is then empty; if the cursor was on a removed frame or one
\* past the end, the cursor becomes unset and the removed buffers are handed
\* back in removed; otherwise the cursor is unchanged and removed is empty.
C24_TruncateReturnsRemoved ==
  [][\A timestamp \in RangeTimestamps, is_exclusive \in BOOLEAN :
       range_result'.call = "TruncateAt"
         /\ CallTruncateAt(timestamp, TRUE, is_exclusive) =>
         /\ TruncateAtRemoves(timestamp, is_exclusive)
         /\ IF CursorOnTruncated(range, timestamp, is_exclusive)
                 \/ CursorPastEnd(range)
              THEN /\ range'.next_buffer_index_ = -1
                   /\ range_result'.out =
                        BuffersTruncated(range, timestamp, is_exclusive)
              ELSE /\ range'.next_buffer_index_ = range.next_buffer_index_
                   /\ range_result'.out = <<>>]_vars

\* C24 (amended): TruncateAt(t, removed, is_exclusive) removes exactly the
\* frames with decode timestamp >= t (> t when is_exclusive) and returns true
\* iff the range is then empty.  If it removes a frame and the cursor was on
\* a removed frame, the cursor becomes unset and removed holds the buffers
\* from the cursor's position to the end; if it removes a frame and the
\* cursor was one past the end, the cursor becomes unset and removed stays
\* empty; if the cursor was on a frame that remains, or was unset, or no
\* frame is removed, the cursor is unchanged and removed stays empty.
C24_TruncateAt ==
  [][\A timestamp \in RangeTimestamps, is_exclusive \in BOOLEAN :
       range_result'.call = "TruncateAt"
         /\ CallTruncateAt(timestamp, TRUE, is_exclusive) =>
         /\ TruncateAtRemoves(timestamp, is_exclusive)
         /\ IF BuffersTruncated(range, timestamp, is_exclusive) = <<>>
              THEN /\ range'.next_buffer_index_ = range.next_buffer_index_
                   /\ range_result'.out = <<>>
              ELSE IF CursorOnTruncated(range, timestamp, is_exclusive)
                THEN /\ range'.next_buffer_index_ = -1
                     /\ range_result'.out =
                          SubSeq(range.buffers_, range.next_buffer_index_ + 1,
                                 Len(range.buffers_))
                ELSE IF CursorPastEnd(range)
                  THEN /\ range'.next_buffer_index_ = -1
                       /\ range_result'.out = <<>>
                  ELSE /\ range'.next_buffer_index_ = range.next_buffer_index_
                       /\ range_result'.out = <<>>]_vars

\* TruncateAt has removed buffers from a range that keeps some, the cursor
\* was on a removed buffer, and more buffers were removed than handed back.
C24_Witness ==
  /\ range_result.call = "TruncateAt"
  /\ range_result.result = "false"
  /\ range_result.out # <<>>
  /\ range.next_buffer_index_ = -1
  /\ range.buffers_ # <<>>
  /\ BuffersHandled(range) + BuffersSplitOff + Len(range_result.out)
       < MaxRangeBuffers


\* ------------------------------------------------------------------ C25
\* The positions of the key frames of a range.
KeyFramePositions(r) ==
  { i \in 0..(Len(r.buffers_) - 1) : BufferAt(r, i).key }

\* The position of the key frame that follows the first buffer of a range,
\* the number of buffers if there is none.
NextKeyFramePosition(r) ==
  IF KeyFramePositions(r) \ {0} = {}
    THEN Len(r.buffers_)
    ELSE MinOf(KeyFramePositions(r) \ {0})

\* The next buffer position of r2 is on the frame that the one of r1 is on,
\* r2 being r1 without its first `deleted` buffers.
SameCursorFrame(r1, r2, deleted) ==
  r2.next_buffer_index_ =
    IF r1.next_buffer_index_ > -1
      THEN r1.next_buffer_index_ - deleted
      ELSE r1.next_buffer_index_

\* A step of DeleteGOPFromFront that removes the first key frame and the
\* frames up to the next key frame.
DeleteGOPFromFrontExactly ==
  LET next == NextKeyFramePosition(range)
  IN  /\ range_result'.out = SubSeq(range.buffers_, 1, next)
      /\ range'.buffers_ = SubSeq(range.buffers_, next + 1, Len(range.buffers_))
      /\ Cardinality(DOMAIN range'.keyframe_map_)
           = Cardinality(DOMAIN range.keyframe_map_) - 1
      /\ SameCursorFrame(range, range', Len(range_result'.out))
      /\ range'.range_start_decode_time_ = kNoDecodeTimestamp

\* A step of DeleteGOPFromBack that removes the last key frame and the frames
\* after it.
DeleteGOPFromBackExactly ==
  LET last == MaxOf(KeyFramePositions(range))
  IN  /\ range_result'.out =
           SubSeq(range.buffers_, last + 1, Len(range.buffers_))
      /\ range'.buffers_ = SubSeq(range.buffers_, 1, last)
      /\ Cardinality(DOMAIN range'.keyframe_map_)
           = Cardinality(DOMAIN range.keyframe_map_) - 1
      /\ SameCursorFrame(range, range', 0)

\* C25: DeleteGOPFromFront removes exactly the first key frame and every
\* frame after it up to but excluding the next key frame, DeleteGOPFromBack
\* removes exactly the last key frame and every frame after it; each removes
\* one keyframe index entry, returns the removed buffers in decode order and
\* keeps the cursor on the same frame (front deletion shifts its index by the
\* number of deleted buffers), and front deletion unsets the range start.
C25_DeleteOneGOP ==
  [][/\ range_result'.call = "DeleteGOPFromFront" /\ CallDeleteGOPFromFront
          => DeleteGOPFromFrontExactly
     /\ range_result'.call = "DeleteGOPFromBack" /\ CallDeleteGOPFromBack
          => DeleteGOPFromBackExactly]_vars


\* ------------------------------------------------------------------ C26
\* After DeleteGOPFromFront the range is empty or starts with a key frame.
FrontDeletionLeavesKeyFrameFirst ==
  range_result'.call = "DeleteGOPFromFront" /\ CallDeleteGOPFromFront =>
    (range'.buffers_ # <<>> => range'.buffers_[1].key)

\* C26 as stated: after DeleteGOPFromFront the first frame of the range is a
\* key frame and after DeleteGOPFromBack the last frame of the range is a key
\* frame, unless the range has become empty.
C26_KeyFrameAtBothEnds ==
  [][/\ FrontDeletionLeavesKeyFrameFirst
     /\ range_result'.call = "DeleteGOPFromBack" /\ CallDeleteGOPFromBack =>
          (range'.buffers_ # <<>> =>
             range'.buffers_[Len(range'.buffers_)].key)]_vars

\* C26 (amended): after DeleteGOPFromFront the first frame of the range is a
\* key frame unless the range has become empty; DeleteGOPFromBack deletes the
\* frames from a key frame to the end, so the range it leaves ends where a
\* GOP ended: the first deleted frame is a key frame and the frames left
\* followed by the deleted frames are the frames before the call.
C26_WholeGOPsDeleted ==
  [][/\ FrontDeletionLeavesKeyFrameFirst
     /\ range_result'.call = "DeleteGOPFromBack" /\ CallDeleteGOPFromBack =>
          /\ range_result'.out # <<>>
          /\ range_result'.out[1].key
          /\ range'.buffers_ \o range_result'.out = range.buffers_]_vars

\* DeleteGOPFromBack has deleted a key frame and a frame that depends on it
\* and has left a range whose last frame is not a key frame.
C26_Witness ==
  /\ range_result.call = "DeleteGOPFromBack"
  /\ Len(range_result.out) >= 2
  /\ range.buffers_ # <<>>
  /\ ~range.buffers_[Len(range.buffers_)].key

\* The position after the last buffer of the GOP whose key frame is at
\* position p: the position of the next key frame, the number of buffers if
\* there is none.
GopEndPosition(r, p) ==
  LET later == { i \in KeyFramePositions(r) : i > p }
  IN  IF later = {} THEN Len(r.buffers_) ELSE MinOf(later)

\* Total data size of the GOP whose key frame is at position p.
GopBytes(r, p) == SumDataSize(SubSeq(r.buffers_, p + 1, GopEndPosition(r, p)))

\* Positions of the key frames of the GOPs a removal in [start, end) may take:
\* DTS at or after start and, when end is before the buffered end, before the
\* last key frame at or before end.
RemovalCandidates(r, start_timestamp, end_timestamp) ==
  LET from_start == KeyFramesAtOrAfter(r, start_timestamp)
      before_end ==
        { i \in KeyFramePositions(r) : BufferAt(r, i).dts <= end_timestamp }
  IN  IF end_timestamp < GetBufferedEndTimestamp(r)
        THEN { i \in from_start : before_end # {} /\ i < MaxOf(before_end) }
        ELSE from_start

RECURSIVE RemovalRun(_, _, _, _)
\* Key frame positions of the shortest run of consecutive candidate GOPs from
\* position p on whose size reaches bytes_needed, all of them if none does.
RemovalRun(r, p, candidates, bytes_needed) ==
  IF p \notin candidates \/ bytes_needed <= 0
    THEN {}
    ELSE {p} \cup RemovalRun(r, GopEndPosition(r, p), candidates,
                             bytes_needed - GopBytes(r, p))

\* The run of GOPs GetRemovalGOP is to report.
RemovalGOPs(r, start_timestamp, end_timestamp, total_bytes_to_free) ==
  IF KeyFramesAtOrAfter(r, start_timestamp) = {}
    THEN {}
    ELSE RemovalRun(r, MinOf(KeyFramesAtOrAfter(r, start_timestamp)),
                    RemovalCandidates(r, start_timestamp, end_timestamp),
                    total_bytes_to_free)

RECURSIVE SumGopBytes(_, _)
SumGopBytes(r, positions) ==
  IF positions = {}
    THEN 0
    ELSE GopBytes(r, MinOf(positions))
           + SumGopBytes(r, positions \ {MinOf(positions)})

\* The DTS of the key frame that follows the run, the buffered end timestamp
\* if no key frame follows it.
RemovalEnd(r, run) ==
  LET next == GopEndPosition(r, MaxOf(run))
  IN  IF next = Len(r.buffers_)
        THEN GetBufferedEndTimestamp(r)
        ELSE BufferAt(r, next).dts

\* C27: GetRemovalGOP(start, end, bytes_to_free, &removal_end) with
\* start <= end does not modify the range and returns the total data size of
\* the shortest run of consecutive whole GOPs that begins at the first key
\* frame with DTS >= start, holds no GOP whose key frame is at or after the
\* last key frame at or before end (when end is before the buffered end) and
\* has a size >= bytes_to_free, or of all such GOPs if their total is smaller;
\* removal_end is written iff the result is > 0, with the DTS of the key frame
\* following the run or else the buffered end timestamp.
C27_GetRemovalGOP ==
  range # NoRange /\ range.buffers_ # <<>> =>
    \A start_timestamp \in RangeTimestamps, end_timestamp \in RangeTimestamps :
      \A total_bytes_to_free \in 0..MaxBytesToFree :
        start_timestamp <= end_timestamp =>
          LET run == RemovalGOPs(range, start_timestamp, end_timestamp,
                                 total_bytes_to_free)
              removal == GetRemovalGOP(range, start_timestamp, end_timestamp,
                                       total_bytes_to_free)
          IN  /\ removal.result = SumGopBytes(range, run)
              /\ (removal.removal_end_timestamp # <<>>) = (removal.result > 0)
              /\ removal.result > 0 =>
                   removal.removal_end_timestamp = << RemovalEnd(range, run) >>

\* The presentation interval [PTS, PTS + duration) of the buffer overlaps
\* [start, end).
OverlapsInterval(buffer, start, end) ==
  Max(buffer.pts, start) < (IF buffer.pts + buffer.dur < end
                              THEN buffer.pts + buffer.dur ELSE end)

\* The buffers of a range that overlap [start, end), in decode order.
BuffersOverlapping(r, start, end) ==
  SelectSeq(r.buffers_, LAMBDA buffer : OverlapsInterval(buffer, start, end))

\* C28: GetBuffersInRange(start, end, out), when every frame of the range has
\* a strictly positive duration, appends to out all frames of the range whose
\* presentation interval [PTS, PTS + duration) overlaps [start, end), and only
\* those, in decode order, and returns true iff at least one frame was
\* appended; it returns false if a frame with a missing or non-positive
\* duration is met in [start, end).
C28_GetBuffersInRange ==
  range # NoRange /\ DOMAIN range.keyframe_map_ # {} =>
    \A start \in QueryTimestamps, end \in QueryTimestamps :
      \A buffers \in QueryOutQueues :
        LET got == GetBuffersInRange(range, start, end, buffers)
        IN  /\ (\A i \in 1..Len(range.buffers_) : range.buffers_[i].dur > 0) =>
                 /\ got.buffers =
                      buffers \o BuffersOverlapping(range, start, end)
                 /\ got.result = (Len(got.buffers) > Len(buffers))
            /\ (\E i \in 1..Len(range.buffers_) :
                  /\ range.buffers_[i].dur <= 0
                  /\ start <= range.buffers_[i].pts
                  /\ range.buffers_[i].pts < end) => ~got.result

\* The range has an explicit start earlier than its first buffer.
HasFrontGap(r) ==
  /\ r.range_start_decode_time_ # kNoDecodeTimestamp
  /\ r.range_start_decode_time_ < BufferAt(r, 0).dts

\* The DTS of the first key frame at or after the timestamp, no timestamp if
\* there is none.
FirstKeyFrameTimeAtOrAfter(r, timestamp) ==
  IF KeyFramesAtOrAfter(r, timestamp) = {}
    THEN kNoDecodeTimestamp
    ELSE BufferAt(r, MinOf(KeyFramesAtOrAfter(r, timestamp))).dts

\* What NextKeyframeTimestamp is to return when the timestamps from gap_start
\* to the first buffer's DTS are taken to be inside the front gap.
NextKeyframeExpected(r, timestamp, gap_start) ==
  IF gap_start <= timestamp /\ timestamp < BufferAt(r, 0).dts
    THEN timestamp
    ELSE IF timestamp < GetStartTimestamp(r)
              \/ timestamp >= GetBufferedEndTimestamp(r)
           THEN kNoDecodeTimestamp
           ELSE FirstKeyFrameTimeAtOrAfter(r, timestamp)

\* C29 as stated: for a range with an explicit start earlier than its first
\* buffer, NextKeyframeTimestamp(t) returns t itself for every t with
\* range start <= t < first buffer's DTS, no timestamp for t outside
\* [range start, buffered end), and otherwise the DTS of the first key frame
\* at or after t (no timestamp if there is none).
C29_GapIncludesRangeStart ==
  range # NoRange /\ DOMAIN range.keyframe_map_ # {} /\ HasFrontGap(range) =>
    \A timestamp \in QueryTimestamps :
      NextKeyframeTimestamp(range, timestamp) =
        NextKeyframeExpected(range, timestamp, range.range_start_decode_time_)

\* C29 (amended): for a range with an explicit start earlier than its first
\* buffer, NextKeyframeTimestamp(t) returns t itself for every t with
\* range start < t < first buffer's DTS, no timestamp for t outside
\* [range start, buffered end), and otherwise, t = range start included, the
\* DTS of the first key frame at or after t (no timestamp if there is none).
C29_NextKeyframeTimestamp ==
  range # NoRange /\ DOMAIN range.keyframe_map_ # {} /\ HasFrontGap(range) =>
    \A timestamp \in QueryTimestamps :
      NextKeyframeTimestamp(range, timestamp) =
        NextKeyframeExpected(range, timestamp,
                             range.range_start_decode_time_ + 1)

\* NextKeyframeTimestamp has returned a timestamp inside the front gap of a
\* range, after the range start and before the first buffer.
C29_Witness ==
  /\ range_result.call = "NextKeyframeTimestamp"
  /\ HasFrontGap(range)
  /\ range.range_start_decode_time_ < range_result.result
  /\ range_result.result < BufferAt(range, 0).dts

\* C30: KeyframeBeforeTimestamp(t) returns no timestamp for t outside
\* [range start, buffered end) and otherwise a timestamp that is never later
\* than t: t itself when t lies inside the front gap before the first buffer,
\* else the DTS of the last key frame at or before t.
C30_KeyframeBeforeTimestamp ==
  range # NoRange /\ DOMAIN range.keyframe_map_ # {} =>
    \A timestamp \in QueryTimestamps :
      LET keyframe == KeyframeBeforeTimestamp(range, timestamp)
      IN  IF timestamp < GetStartTimestamp(range)
               \/ timestamp >= GetBufferedEndTimestamp(range)
            THEN keyframe = kNoDecodeTimestamp
            ELSE /\ keyframe # kNoDecodeTimestamp
                 /\ keyframe <= timestamp
                 /\ keyframe =
                      IF timestamp < BufferAt(range, 0).dts
                        THEN timestamp
                        ELSE MaxOf(KeyFrameTimesAtOrBefore(range, timestamp))

\* C31: the range returned by SplitRange(t) has an explicit start timestamp
\* earlier than its first buffer, and then equal to t, if and only if t falls
\* inside the front gap of the range being split, i.e. original range start
\* <= t < DTS of the original first buffer; for any t at or after the original
\* first buffer's DTS the new range starts exactly at its first buffer.
C31_SplitKeepsFrontGap ==
  [][\A timestamp \in RangeTimestamps :
       range_result'.call = "SplitRange" /\ CallSplitRange(timestamp)
         /\ split_range' # <<>> =>
         LET new_range == split_range'[1]
             in_front_gap == /\ GetStartTimestamp(range) <= timestamp
                             /\ timestamp < BufferAt(range, 0).dts
         IN  /\ HasFrontGap(new_range) = in_front_gap
             /\ in_front_gap => new_range.range_start_decode_time_ = timestamp
             /\ timestamp >= BufferAt(range, 0).dts =>
                  GetStartTimestamp(new_range) = BufferAt(new_range, 0).dts]_vars

\* C32: a successful SplitRange preserves the seek cursor: if the cursor was
\* set, afterwards exactly one of the two ranges has a cursor and it designates
\* the same frame (or the same one-past-the-end position) as before the split,
\* moving to the new range iff that position is at or after the split key
\* frame; if the cursor was unset, neither range has one.
C32_SplitKeepsCursor ==
  [][\A timestamp \in RangeTimestamps :
       range_result'.call = "SplitRange" /\ CallSplitRange(timestamp)
         /\ split_range' # <<>> =>
         LET new_range == split_range'[1]
             position == range.next_buffer_index_
             split_position == MinOf(KeyFramesAtOrAfter(range, timestamp))
         IN  IF ~HasNextBufferPosition(range)
               THEN /\ ~HasNextBufferPosition(range')
                    /\ ~HasNextBufferPosition(new_range)
               ELSE IF position >= split_position
                 THEN /\ ~HasNextBufferPosition(range')
                      /\ new_range.next_buffer_index_ = position - split_position
                      /\ (position = Len(range.buffers_)) =
                           (new_range.next_buffer_index_ = Len(new_range.buffers_))
                      /\ position < Len(range.buffers_) =>
                           BufferAt(new_range, new_range.next_buffer_index_)
                             = BufferAt(range, position)
                 ELSE /\ ~HasNextBufferPosition(new_range)
                      /\ range'.next_buffer_index_ = position
                      /\ BufferAt(range', position) = BufferAt(range, position)]_vars

\* SplitRange has handed the cursor to the range it returned, on a frame after
\* that range's first, and has left buffers in this range.
C32_Witness ==
  /\ range_result.call = "SplitRange"
  /\ split_range # <<>>
  /\ range.buffers_ # <<>>
  /\ ~HasNextBufferPosition(range)
  /\ split_range[1].next_buffer_index_ >= 1

\* The frames the sink of track id was handed by the calls es, in order.
RECURSIVE FramesHandedTo(_, _)
FramesHandedTo(id, es) ==
  IF es = <<>> THEN <<>>
  ELSE (IF Head(es).op = "Append" /\ Head(es).track = id
        THEN Head(es).frames ELSE <<>>) \o FramesHandedTo(id, Tail(es))

\* ProcessFrames has returned true for the batch of the four frames at 0, 10,
\* 20 and 30 of track id under the append window [5, 35).
ScenarioDone(id) ==
  /\ pc = "idle"
  /\ result = "true"
  /\ calls = 1
  /\ frames_processed = 4
  /\ append_window_start = 5
  /\ append_window_end = 35
  /\ id \in DOMAIN track_buffers_
  /\ FramesHandedTo(id, events) # <<>>

\* The presentation timestamps of the frames fs.
PresentationTimestamps(fs) == [i \in 1..Len(fs) |-> fs[i].pts]

\* C33 as stated: in the scenario the frame at 0 is trimmed to start at 5 by a
\* sink with partial trimming and dropped by one without, the frames at 10, 20
\* and 30 are appended in both cases, and the highest presentation timestamp
\* of the track ends at 35 with trimming and at 40 without.
C33_FramesAppendedInBothCases ==
  \A id \in TrackIds :
    ScenarioDone(id) =>
      LET fs == FramesHandedTo(id, events)
          highest == track_buffers_[id].highest_presentation_timestamp_
      IN  IF StreamFor(id).partial
            THEN /\ PresentationTimestamps(fs) = <<5, 10, 20, 30>>
                 /\ highest = 35
            ELSE /\ PresentationTimestamps(fs) = <<10, 20, 30>>
                 /\ highest = 40

\* C33: in the scenario a sink with partial trimming is handed the frame at 0
\* trimmed to [5, 10), the frames at 10 and 20 and the frame at 30 trimmed to
\* [30, 35), and the highest presentation timestamp ends at 35; a sink without
\* is handed the frames at 10 and 20 only, the frames at 0 and at 30 being
\* dropped, and the highest presentation timestamp ends at 30.
C33_Scenario ==
  \A id \in TrackIds :
    ScenarioDone(id) =>
      LET fs == FramesHandedTo(id, events)
          highest == track_buffers_[id].highest_presentation_timestamp_
      IN  IF StreamFor(id).partial
            THEN /\ PresentationTimestamps(fs) = <<5, 10, 20, 30>>
                 /\ [i \in 1..Len(fs) |-> fs[i].dur] = <<5, 10, 10, 5>>
                 /\ highest = 35
            ELSE /\ PresentationTimestamps(fs) = <<10, 20>>
                 /\ [i \in 1..Len(fs) |-> fs[i].dur] = <<10, 10>>
                 /\ highest = 30

\* The scenario has run on the track whose sink does not trim.
C33_Witness ==
  \E id \in TrackIds : ScenarioDone(id) /\ ~StreamFor(id).partial

\* HandlePartialAppendWindowTrimming was the last call; the buffer it was
\* passed and the buffer as it left the call.
TrimmingCalled ==
  /\ events # <<>>
  /\ events[1].op = "HandlePartialAppendWindowTrimming"

TrimArgument == events[1].frames[1]

TrimmedBuffer == frame[1]

\* Whether buffer b lies inside the append window of the running call.
InsideAppendWindow(b) ==
  /\ b.pts >= append_window_start
  /\ b.pts + b.dur <= append_window_end

\* C34: HandlePartialAppendWindowTrimming applied, with the same window and
\* no preroll buffer pending, to a frame that lies inside the window leaves
\* its PTS, DTS, duration and discard padding unchanged; a frame that a call
\* has trimmed (the call returned true) lies inside the window and leaves no
\* preroll buffer pending.
C34_TrimmingIdempotent ==
  TrimmingCalled =>
    LET b == TrimmedBuffer
        again == HandlePartialAppendWindowTrimming(
                   append_window_start, append_window_end, b, <<>>,
                   sample_duration_).buffer
    IN  /\ events[1].ok =>
             InsideAppendWindow(b) /\ audio_preroll_buffer_ = <<>>
        /\ InsideAppendWindow(b) =>
             /\ again.pts = b.pts
             /\ again.dts = b.dts
             /\ again.dur = b.dur
             /\ again.discard_front = b.discard_front
             /\ again.discard_back = b.discard_back

\* The function has been applied, with no preroll buffer pending, to a frame
\* that an earlier call had trimmed at the window start, and has returned
\* false.
C34_Witness ==
  /\ TrimmingCalled
  /\ TrimArgument.discard_front > 0
  /\ TrimArgument.pts = append_window_start
  /\ TrimmedBuffer = TrimArgument
  /\ ~events[1].ok

\* C40: for an audio frame with zero discard padding that overlaps the append
\* window, after HandlePartialAppendWindowTrimming front discard + duration +
\* back discard is the original duration, the PTS is the larger of the
\* original PTS and the window start, the end is the smaller of the original
\* end and the window end, and the DTS has moved by as much as the PTS.
C40_TrimmingConservesExtent ==
  TrimmingCalled =>
    LET b0 == TrimArgument
        b == TrimmedBuffer
        end0 == b0.pts + b0.dur
    IN  (/\ b0.discard_front = 0
         /\ b0.discard_back = 0
         /\ b0.pts < append_window_end
         /\ end0 > append_window_start) =>
          /\ b.discard_front + b.dur + b.discard_back = b0.dur
          /\ b.pts = IF b0.pts > append_window_start
                       THEN b0.pts ELSE append_window_start
          /\ b.pts + b.dur = IF end0 < append_window_end
                               THEN end0 ELSE append_window_end
          /\ b.dts - b0.dts = b.pts - b0.pts

\* A frame without discard padding and with DTS before PTS has been trimmed
\* at both ends of the window.
C40_Witness ==
  /\ TrimmingCalled
  /\ TrimArgument.discard_front = 0
  /\ TrimArgument.discard_back = 0
  /\ TrimArgument.dts < TrimArgument.pts
  /\ TrimmedBuffer.discard_front > 0
  /\ TrimmedBuffer.discard_back > 0

\* C35: within one coded frame group of a track, between two consecutive
\* group start notifications to its sink, the frames appended to the sink have
\* non-decreasing DTS and the first of them has a DTS at or after the notified
\* group start: the frames of one Append are in order, an Append that follows
\* another without a notification in between goes on at or after the DTS
\* where that one ended, and the frames appended since the last notification
\* are at or after its timestamp.
C35_GroupFramesInOrder ==
  \A id \in TrackIds :
    LET sk == sink[id]
    IN  (sk.group_start # kNoTimestamp /\ sk.appended # <<>>
           /\ ~sk.notified_since) =>
          /\ NonDecreasing(sk.appended)
          /\ sk.appended[1] >= sk.group_start
          /\ (~sk.notified_between /\ sk.before # kNoTimestamp) =>
               sk.before <= sk.appended[1]

\* A sink was handed a frame with a decode timestamp below that of the frame
\* handed to it before, after a group start notification in between.
C35_Witness ==
  \E id \in TrackIds :
    /\ sink[id].appended # <<>>
    /\ sink[id].notified_between
    /\ ~sink[id].notified_since
    /\ sink[id].before # kNoTimestamp
    /\ sink[id].appended[1] < sink[id].before

\* C36: whenever ProcessFrame detects a discontinuity on a track (the pass
\* through the loop body ends with a restart), the pending notify-all group
\* start flag is false when the discontinuity is detected.
C36_DiscontinuityAssertion ==
  [][outcome'.how = "continue" => ~pending_notify_all_group_start_]_vars

\* C37: a coded frame group starts on a random access point: whenever
\* ProcessFrame signals a group start, because a notify-all is pending or
\* because the track's last processed DTS is greater than the frame's DTS,
\* the frame that triggers it is a key frame.
C37_GroupStartsOnKeyFrame ==
  [][(outcome'.how = "enqueued" /\ GroupStartsSignalled(events') # <<>>)
       => outcome'.key]_vars

\* C38: no accepted frame is left behind or lost.  Every step keeps, for each
\* track, the frames in flight: the frames staged before the step, followed
\* by the frame the step enqueued for the track, are the frames the step
\* handed to the track's sink followed by the frames staged after it, every
\* frame handed to a sink is a frame of that sink's track, and when
\* ProcessFrames has returned, with either result, no track has a staged
\* frame.  So each enqueued frame reaches its own sink once, in enqueue order.
C38_NoFrameLeftBehind ==
  [][/\ pc' = "idle" =>
          \A id \in DOMAIN track_buffers_' :
            track_buffers_'[id].processed_frames_ = <<>>
     /\ \A id \in DOMAIN track_buffers_ \cap DOMAIN track_buffers_' :
          LET staged == track_buffers_[id].processed_frames_
              staged_after == track_buffers_'[id].processed_frames_
              handed == FramesHandedTo(id, events')
              enqueued == IF outcome'.how = "enqueued" /\ outcome'.track = id
                          THEN <<staged_after[Len(staged_after)]>>
                          ELSE <<>>
          IN  /\ staged \o enqueued = handed \o staged_after
              /\ \A i \in 1..Len(handed) : handed[i].track = id]_vars

\* ProcessFrames has returned false after a flush in which the sink of one
\* track failed and the sink of another track was still handed its frames,
\* and every frame enqueued by the call was handed over.
C38_Witness ==
  /\ pc = "idle"
  /\ result = "false"
  /\ call_log.enqueued >= 2
  /\ call_log.appended = call_log.enqueued
  /\ \E i, j \in 1..Len(events) :
       /\ events[i].op = "Append" /\ ~events[i].ok
       /\ events[j].op = "Append" /\ events[j].ok
       /\ i < j

\* The track buffers new are the track buffers old with each changed id
\* renamed: a bijection, with no track buffer lost, duplicated or left null.
Renamed(old, new, track_id_changes) ==
  LET rename(id) == IF id \in DOMAIN track_id_changes
                    THEN track_id_changes[id] ELSE id
  IN  /\ DOMAIN new = { rename(id) : id \in DOMAIN old }
      /\ \A id1, id2 \in DOMAIN old : rename(id1) = rename(id2) => id1 = id2
      /\ \A id \in DOMAIN old :
           new[rename(id)] = old[id] /\ new[rename(id)] # NullTrackBuffer

\* C39: UpdateTrackIds either succeeds, and then the track buffers are those
\* from before with each changed id renamed, or returns false, and then the
\* registered track ids and their track buffers are as before the call.
C39_UpdateTrackIdsAllOrNothing ==
  [][\A track_id_changes \in TrackIdChangeInputs :
       CallUpdateTrackIds(track_id_changes) =>
         IF last_call' = "UpdateTrackIds"
           THEN Renamed(track_buffers_, track_buffers_', track_id_changes)
           ELSE track_buffers_' = track_buffers_]_vars

====
